---- MODULE Spec2Model ----
(***************************************************************************)
(* Model of the stroke modeler of ink-stroke-modeler-rs (src/src/engine.rs *)
(* and the modelers it drives).                                            *)
(*                                                                         *)
(* Numbers.  The code computes in f32 (positions, velocities, pressures)   *)
(* and f64 (times, durations).  Here an f32 value is an integer count of   *)
(* 1/F32 units and an f64 value an integer count of 1/F64 units; every     *)
(* product, quotient and square root rounds to the grid, as a float        *)
(* operation rounds to its format, and the cast f64 -> f32 rounds to the   *)
(* coarser grid.  A sum or a difference of grid values is exact as long as  *)
(* it fits the 24-bit significand of an f32, which it does for every       *)
(* position the callers of the stroke specifications send; interp, whose   *)
(* result is claimed exact for every position, rounds its difference, its  *)
(* product and its sum to 24 significant bits (RoundToF32).                *)
(* Option<T> is a sequence: <<>> is None, <<x>> is Some(x).                *)
(***************************************************************************)
EXTENDS Integers, Sequences, FiniteSets, TLC

\* ------------------------------------------------------------------ bounds
\* calls made to the modeler in one behaviour
MaxCalls == 4
\* the caller's clock stops after this many ticks
MaxTicks == 2
\* calls made by the caller that keeps to the protocol (SpecStrokes)
MaxStrokeCalls == 6
\* calls of wobble_update made on the wobble smoother under test (SpecWobble)
MaxWobbleCalls == 2
\* updates and resets of the state modeler under test (SpecHistory)
MaxHistoryCalls == 3
\* calls made with the parameter set under test (SpecValidate)
MaxParamCalls == 2
\* integration steps made on the position modeler under test (SpecCatchUp)
MaxPathSteps == 1

\* ----------------------------------------------------------------- numbers
F32 == 2^6
F64 == 2^8
Tick == F64

\* n / d rounded to the nearest integer, d # 0: floor(n / d + 1/2), written
\* so that no intermediate value is larger than n
RoundDiv(n, d) ==
    IF d > 0 THEN (n \div d) + (IF 2 * (n % d) >= d THEN 1 ELSE 0)
             ELSE ((0 - n) \div (0 - d))
                      + (IF 2 * ((0 - n) % (0 - d)) >= 0 - d THEN 1 ELSE 0)

MulF32(a, b) == RoundDiv(a * b, F32)
DivF32(a, b) == RoundDiv(a * F32, b)
MulF64(a, b) == RoundDiv(a * b, F64)
DivF64(a, b) == RoundDiv(a * F64, b)
\* `x as f32` of an f64 and `x as f64` of an f32
AsF32(x) == RoundDiv(x * F32, F64)
AsF64(x) == x * (F64 \div F32)
\* f64::ceil followed by `as i32`
CeilAsI32(x) == 0 - ((0 - x) \div F64)
I32_MAX == 2147483647

\* f32::MANTISSA_DIGITS: the bits of the significand of an f32
F32_MANTISSA_DIGITS == 24

\* the spacing of the f32 values around a >= 0, on the grid: the smallest
\* power of two q >= q0 with a / q < 2^24
RECURSIVE Spacing(_, _)
Spacing(a, q) == IF a \div q < 2^F32_MANTISSA_DIGITS THEN q ELSE Spacing(a, 2 * q)

\* a >= 0 rounded to a multiple of q, ties to the even multiple
RoundToMultiple(a, q) ==
    IF 2 * (a % q) < q THEN a - (a % q)
    ELSE IF 2 * (a % q) > q THEN a - (a % q) + q
    ELSE IF (a \div q) % 2 = 0 THEN a - (a % q)
    ELSE a - (a % q) + q

\* the f32 nearest to the grid value x (round to nearest, ties to even)
RoundToF32(x) ==
    IF x >= 0 THEN RoundToMultiple(x, Spacing(x, 1))
              ELSE 0 - RoundToMultiple(0 - x, Spacing(0 - x, 1))

Min(a, b) == IF a < b THEN a ELSE b
Max(a, b) == IF a > b THEN a ELSE b
\* f32::clamp(0.0, 1.0)
Clamp01(x) == Max(0, Min(F32, x))

RECURSIVE SqrtSearch(_, _, _)
SqrtSearch(n, lo, hi) ==
    IF lo >= hi THEN lo
    ELSE LET mid == (lo + hi + 1) \div 2
         IN  IF mid * mid <= n THEN SqrtSearch(n, mid, hi)
                               ELSE SqrtSearch(n, lo, mid - 1)
\* f32::sqrt of x >= 0
SqrtF32(x) == IF x = 0 THEN 0 ELSE SqrtSearch(x * F32, 0, x + F32)

None == <<>>
Some(x) == <<x>>
IsSome(o) == o # <<>>
Unwrap(o) == o[1]

\* ------------------------------------------------------------ src/utils.rs
normalize01_32(start, end, value) ==
    IF start = end
    THEN (IF value > start THEN F32 ELSE 0)
    ELSE Clamp01(DivF32(value - start, end - start))

\* start + (end - start) * interp_amount.clamp(0.0, 1.0), each operation
\* rounded to an f32
interp(start, end, interp_amount) ==
    RoundToF32(start
        + RoundToF32(MulF32(RoundToF32(end - start), Clamp01(interp_amount))))

interp2(start, end, interp_amount) ==
    << start[1] + MulF32(Clamp01(interp_amount), end[1] - start[1]),
       start[2] + MulF32(Clamp01(interp_amount), end[2] - start[2]) >>

dot(x, y) == MulF32(x[1], y[1]) + MulF32(x[2], y[2])

nearest_point_on_segment(start, end, point) ==
    IF start = end
    THEN 0
    ELSE LET seg_vector  == << end[1] - start[1], end[2] - start[2] >>
             proj_vector == << point[1] - start[1], point[2] - start[2] >>
         IN  Clamp01(DivF32(dot(proj_vector, seg_vector), dot(seg_vector, seg_vector)))

dist(start, end) ==
    SqrtF32(MulF32(start[1] - end[1], start[1] - end[1])
            + MulF32(start[2] - end[2], start[2] - end[2]))

\* ----------------------------------------------------------- src/params.rs
\* The parameter sets the model constructs and resets with.  P1 upsamples
\* (two outputs per tick) and its catch-up stalls or runs out of
\* iterations; P2 has one output per tick and a catch-up that overshoots.
P1 == [ wobble_smoother_timeout                  |-> (3 * F64) \div 2,
        wobble_smoother_speed_floor              |-> F32 \div 2,
        wobble_smoother_speed_ceiling            |-> F32,
        position_modeler_spring_mass_constant    |-> F32 \div 2,
        position_modeler_drag_constant           |-> 2 * F32,
        sampling_min_output_rate                 |-> 2 * F64,
        sampling_end_of_stroke_stopping_distance |-> F32 \div 8,
        sampling_end_of_stroke_max_iterations    |-> 3,
        sampling_max_outputs_per_call            |-> 1,
        stylus_state_modeler_max_input_samples   |-> 2 ]

P2 == [ wobble_smoother_timeout                  |-> F64 \div 2,
        wobble_smoother_speed_floor              |-> F32,
        wobble_smoother_speed_ceiling            |-> 2 * F32,
        position_modeler_spring_mass_constant    |-> F32 \div 2,
        position_modeler_drag_constant           |-> F32,
        sampling_min_output_rate                 |-> F64,
        sampling_end_of_stroke_stopping_distance |-> F32 \div 8,
        sampling_end_of_stroke_max_iterations    |-> 4,
        sampling_max_outputs_per_call            |-> 2,
        stylus_state_modeler_max_input_samples   |-> 3 ]

\* P3 upsamples like P1 and smooths: a slow event after a jump is pulled
\* back to the average position of the last tick.
P3 == [ P2 EXCEPT !.wobble_smoother_timeout  = F64,
                  !.sampling_min_output_rate = 2 * F64 ]

\* a parameter set validate() rejects
PBad == [ P2 EXCEPT !.sampling_min_output_rate = 0 ]

ParamSets == { P1, P2, PBad }

\* ModelerParams::validate: Ok(self) iff every test passes
validate(p) ==
    /\ p.position_modeler_spring_mass_constant > 0
    /\ p.position_modeler_drag_constant > 0
    /\ p.sampling_min_output_rate > 0
    /\ p.sampling_end_of_stroke_stopping_distance > 0
    /\ p.sampling_end_of_stroke_max_iterations > 0
    /\ p.sampling_end_of_stroke_max_iterations < 1000
    /\ p.sampling_max_outputs_per_call > 0
    /\ p.wobble_smoother_timeout > 0
    /\ p.wobble_smoother_speed_floor > 0
    /\ p.wobble_smoother_speed_ceiling > 0
    /\ p.wobble_smoother_speed_floor < p.wobble_smoother_speed_ceiling

\* The parameter sets validate() is tried on: every field takes a value
\* each of its tests rejects and one they accept, max_iterations the values
\* around both of its limits.
ParamGrid ==
    [ wobble_smoother_timeout                  : { 0 - F64, F64 \div 2 },
      wobble_smoother_speed_floor              : { 0, F32, 2 * F32 },
      wobble_smoother_speed_ceiling            : { 0, F32, 2 * F32 },
      position_modeler_spring_mass_constant    : { 0, F32 \div 2 },
      position_modeler_drag_constant           : { 0 - F32, F32 },
      sampling_min_output_rate                 : { 0, F64 },
      sampling_end_of_stroke_stopping_distance : { 0, F32 \div 8 },
      sampling_end_of_stroke_max_iterations    : { 0, 1, 999, 1000, 1001 },
      sampling_max_outputs_per_call            : { 0, 1 },
      stylus_state_modeler_max_input_samples   : { 0, 2 } ]

\* ---------------------------------------------------- src/state_modeler.rs
StateModeler_new(param) ==
    [ stylus_state_modeler_max_input_samples |-> param, last_strokes |-> <<>> ]

\* (mutant) over capacity the newest sample is dropped, not the oldest
StateModeler_update_DropsNewest(sm, input) ==
    [ sm EXCEPT !.last_strokes =
        IF Len(sm.last_strokes) + 1 > sm.stylus_state_modeler_max_input_samples
        THEN sm.last_strokes ELSE Append(sm.last_strokes, input) ]

StateModeler_update(sm, input) ==
    LET pushed == Append(sm.last_strokes, input)
    IN  [ sm EXCEPT !.last_strokes =
            IF Len(pushed) > sm.stylus_state_modeler_max_input_samples
            THEN Tail(pushed) ELSE pushed ]

StateModeler_reset(sm, max_input) ==
    [ stylus_state_modeler_max_input_samples |-> max_input, last_strokes |-> <<>> ]

\* (mutant) a pair as near as the nearest so far takes its place
Closer_OrAsNear(d, distance) == distance = -1 \/ d <= distance

\* dist(pos, point_c) < distance; distance = -1 stands for f32::INFINITY
Closer(d, distance) == distance = -1 \/ d < distance

\* the loop of query over the consecutive pairs index_it, index_it + 1
RECURSIVE QueryLoop(_, _, _, _)
QueryLoop(strokes, pos, index_it, best) ==
    IF index_it > Len(strokes) - 1 THEN best
    ELSE LET start_pos == strokes[index_it].pos
             end_pos   == strokes[index_it + 1].pos
             r_c       == nearest_point_on_segment(start_pos, end_pos, pos)
             point_c   == interp2(start_pos, end_pos, r_c)
             d         == dist(pos, point_c)
         IN  IF Closer(d, best.distance)
             THEN QueryLoop(strokes, pos, index_it + 1,
                            [ distance       |-> d,
                              r              |-> r_c,
                              start_pressure |-> strokes[index_it].pressure,
                              end_pressure   |-> strokes[index_it + 1].pressure ])
             ELSE QueryLoop(strokes, pos, index_it + 1, best)

StateModeler_query(sm, pos) ==
    IF Len(sm.last_strokes) = 0 THEN F32
    ELSE IF Len(sm.last_strokes) = 1 THEN sm.last_strokes[1].pressure
    ELSE LET best == QueryLoop(sm.last_strokes, pos, 1,
                               [ distance |-> -1, r |-> 0,
                                 start_pressure |-> F32, end_pressure |-> F32 ])
         IN  interp(best.start_pressure, best.end_pressure, best.r)

\* ------------------------------------------------- src/position_modeler.rs
\* (mutant) the modeler starts at time 0 instead of the Down's time
PositionModeler_new_TimeZero(params, first_input) ==
    [ position_modeler_spring_mass_constant |-> params.position_modeler_spring_mass_constant,
      position_modeler_drag_constant        |-> params.position_modeler_drag_constant,
      state |-> [ pos          |-> first_input.pos,
                  velocity     |-> << 0, 0 >>,
                  acceleration |-> << 0, 0 >>,
                  time         |-> 0 ] ]

\* (mutant) the modeler starts at the origin instead of the Down's position
PositionModeler_new_Origin(params, first_input) ==
    [ position_modeler_spring_mass_constant |-> params.position_modeler_spring_mass_constant,
      position_modeler_drag_constant        |-> params.position_modeler_drag_constant,
      state |-> [ pos          |-> << 0, 0 >>,
                  velocity     |-> << 0, 0 >>,
                  acceleration |-> << 0, 0 >>,
                  time         |-> first_input.time ] ]

PositionModeler_new(params, first_input) ==
    [ position_modeler_spring_mass_constant |-> params.position_modeler_spring_mass_constant,
      position_modeler_drag_constant        |-> params.position_modeler_drag_constant,
      state |-> [ pos          |-> first_input.pos,
                  velocity     |-> << 0, 0 >>,
                  acceleration |-> << 0, 0 >>,
                  time         |-> first_input.time ] ]

\* (mutant) the position moves with the velocity of before the step
PositionModeler_update_PosFirst(pm, anchor_pos, time) ==
    LET s          == pm.state
        K          == pm.position_modeler_spring_mass_constant
        D          == pm.position_modeler_drag_constant
        delta_time == AsF32(time - s.time)
        acc == << DivF32(anchor_pos[1] - s.pos[1], K) - MulF32(D, s.velocity[1]),
                  DivF32(anchor_pos[2] - s.pos[2], K) - MulF32(D, s.velocity[2]) >>
        vel == << s.velocity[1] + MulF32(delta_time, acc[1]),
                  s.velocity[2] + MulF32(delta_time, acc[2]) >>
        pos == << s.pos[1] + MulF32(delta_time, s.velocity[1]),
                  s.pos[2] + MulF32(delta_time, s.velocity[2]) >>
    IN  [ pm EXCEPT !.state = [ pos |-> pos, velocity |-> vel,
                                acceleration |-> acc, time |-> time ] ]

\* one integration step; the new state is also the returned sample
PositionModeler_update(pm, anchor_pos, time) ==
    LET s          == pm.state
        K          == pm.position_modeler_spring_mass_constant
        D          == pm.position_modeler_drag_constant
        delta_time == AsF32(time - s.time)
        acc == << DivF32(anchor_pos[1] - s.pos[1], K) - MulF32(D, s.velocity[1]),
                  DivF32(anchor_pos[2] - s.pos[2], K) - MulF32(D, s.velocity[2]) >>
        vel == << s.velocity[1] + MulF32(delta_time, acc[1]),
                  s.velocity[2] + MulF32(delta_time, acc[2]) >>
        pos == << s.pos[1] + MulF32(delta_time, vel[1]),
                  s.pos[2] + MulF32(delta_time, vel[2]) >>
    IN  [ pm EXCEPT !.state = [ pos |-> pos, velocity |-> vel,
                                acceleration |-> acc, time |-> time ] ]

\* (mutant) the fraction taken back from the end instead of on from the start
PathTime_FromEnd(start_time, end_time, frac_adv) ==
    end_time - MulF64(AsF64(frac_adv), end_time - start_time)

\* (mutant) the time elapsed on the path, not counted from start_time
PathTime_Elapsed(start_time, end_time, frac_adv) ==
    MulF64(AsF64(frac_adv), end_time - start_time)

\* the time of the step that is frac_adv of the way along the path
PathTime(start_time, end_time, frac_adv) ==
    start_time + MulF64(AsF64(frac_adv), end_time - start_time)

\* (mutant) the steps are counted from 0: the fraction of step i is (i - 1) / n
PathFraction_ZeroBased(i, n_steps) == DivF32((i - 1) * F32, n_steps * F32)

\* frac_adv: i as f32 / n_steps as f32
PathFraction(i, n_steps) == DivF32(i * F32, n_steps * F32)

\* the map over 1..=n_steps of update_along_linear_path
RECURSIVE LinearPathLoop(_, _, _, _, _, _, _, _)
LinearPathLoop(pm, start_pos, start_time, end_pos, end_time, n_steps, i, out) ==
    IF i > n_steps THEN [ pm |-> pm, out |-> out ]
    ELSE LET frac_adv   == PathFraction(i, n_steps)
             anchor_pos == << start_pos[1] + MulF32(frac_adv, end_pos[1] - start_pos[1]),
                              start_pos[2] + MulF32(frac_adv, end_pos[2] - start_pos[2]) >>
             time       == PathTime(start_time, end_time, frac_adv)
             next       == PositionModeler_update(pm, anchor_pos, time)
         IN  LinearPathLoop(next, start_pos, start_time, end_pos, end_time, n_steps,
                            i + 1, Append(out, next.state))

update_along_linear_path(pm, start_pos, start_time, end_pos, end_time, n_steps) ==
    LinearPathLoop(pm, start_pos, start_time, end_pos, end_time, n_steps, 1, <<>>)

\* (mutant) the catch-up's last state is left in the modeler
EndOfStrokeExit_NoRestore(pm, initial_state) == pm

\* (mutant) the state is restored, its time apart
EndOfStrokeExit_KeepsTime(pm, initial_state) ==
    [ pm EXCEPT !.state = [ initial_state EXCEPT !.time = pm.state.time ] ]

\* the state model_end_of_stroke leaves in the modeler on each of its exits
EndOfStrokeExit(pm, initial_state) == [ pm EXCEPT !.state = initial_state ]

\* (mutant) the loop runs over 0..=max_iterations
EndOfStrokeDone_Inclusive(it, max_iterations) == it > max_iterations

\* the range 0..max_iterations of the for loop is exhausted
EndOfStrokeDone(it, max_iterations) == it >= max_iterations

\* (mutant) a candidate that hardly moved is treated like any other
Stalled_Never(previous_state, candidate, stop_distance) == FALSE

\* "we aren't making progress anymore"
Stalled(previous_state, candidate, stop_distance) ==
    dist(previous_state.pos, candidate.pos) < stop_distance

\* (mutant) the time step is kept after an overshoot
BackOff_Keep(delta_time) == delta_time

\* delta_time *= 0.5
BackOff(delta_time) == RoundDiv(delta_time, 2)

\* What model_end_of_stroke returns (out) and the modeler it leaves (pm),
\* with the locals of the loop at the return: which return it was, the
\* iterations completed before the one that returned, and delta_time.
EndOfStrokeReturn(pm, out_events, exit, it, delta_time) ==
    [ pm |-> pm, out |-> out_events, exit |-> exit, it |-> it, delta_time |-> delta_time ]

\* the for loop of model_end_of_stroke, `it` iterations done so far
RECURSIVE EndOfStrokeLoop(_, _, _, _, _, _, _, _)
EndOfStrokeLoop(pm, initial_state, anchor_pos, delta_time, max_iterations, stop_distance, it, out_events) ==
    IF EndOfStrokeDone(it, max_iterations)
    THEN EndOfStrokeReturn(EndOfStrokeExit(pm, initial_state), out_events,
                           "exhausted", it, delta_time)
    ELSE LET previous_state == pm.state
             cand_pm   == PositionModeler_update(pm, anchor_pos,
                                                 previous_state.time + delta_time)
             candidate == cand_pm.state
         IN  IF Stalled(previous_state, candidate, stop_distance)
             THEN EndOfStrokeReturn(EndOfStrokeExit(cand_pm, initial_state), out_events,
                                    "stalled", it, delta_time)
             ELSE IF nearest_point_on_segment(previous_state.pos, candidate.pos,
                                              anchor_pos) < F32
             THEN EndOfStrokeLoop([ pm EXCEPT !.state = previous_state ], initial_state,
                                  anchor_pos, BackOff(delta_time), max_iterations,
                                  stop_distance, it + 1, out_events)
             ELSE IF dist(candidate.pos, anchor_pos) < stop_distance
             THEN EndOfStrokeReturn(EndOfStrokeExit(cand_pm, initial_state),
                                    Append(out_events, candidate),
                                    "close", it, delta_time)
             ELSE EndOfStrokeLoop(cand_pm, initial_state, anchor_pos, delta_time,
                                  max_iterations, stop_distance, it + 1,
                                  Append(out_events, candidate))

model_end_of_stroke(pm, anchor_pos, delta_time, max_iterations, stop_distance) ==
    EndOfStrokeLoop(pm, pm.state, anchor_pos, delta_time, max_iterations,
                    stop_distance, 0, <<>>)

\* ------------------------------------------------------------ src/input.rs
EventTypes == { "Down", "Move", "Up" }

\* ----------------------------------------------------------- src/engine.rs
\* 1. / self.params.sampling_min_output_rate
OutputPeriod(p) == DivF64(F64, p.sampling_min_output_rate)

StrokeModeler_new(p) ==
    [ params                  |-> p,
      last_event              |-> None,
      last_corrected_event    |-> None,
      wobble_deque            |-> <<>>,
      wobble_duration_sum     |-> 0,
      wobble_weighted_pos_sum |-> << 0, 0 >>,
      wobble_distance_sum     |-> 0,
      position_modeler        |-> None,
      state_modeler           |->
          StateModeler_new(p.stylus_state_modeler_max_input_samples) ]

\* (mutant) the parameters are not validated
new_Unchecked(p) == [ ok |-> TRUE, m |-> Some(StrokeModeler_new(p)) ]

\* StrokeModeler::new: params.validate()? and then the struct
new(p) ==
    IF ~validate(p)
    THEN [ ok |-> FALSE, m |-> None ]
    ELSE [ ok |-> TRUE, m |-> Some(StrokeModeler_new(p)) ]

\* (mutant) reset forgets the stroke in progress
reset_KeepsStroke(m) ==
    [ m EXCEPT !.wobble_deque            = <<>>,
               !.wobble_duration_sum     = 0,
               !.wobble_weighted_pos_sum = << 0, 0 >>,
               !.state_modeler           =
                   StateModeler_reset(m.state_modeler,
                       m.params.stylus_state_modeler_max_input_samples) ]

StrokeModeler_reset(m) ==
    [ m EXCEPT !.last_event              = None,
               !.wobble_deque            = <<>>,
               !.wobble_duration_sum     = 0,
               !.wobble_weighted_pos_sum = << 0, 0 >>,
               !.position_modeler        = None,
               !.state_modeler           =
                   StateModeler_reset(m.state_modeler,
                       m.params.stylus_state_modeler_max_input_samples) ]

\* (mutant) reset_w_params forgets the stroke in progress
ResetWParamsBody_KeepsStroke(m, p) ==
    [ m EXCEPT !.wobble_deque            = <<>>,
               !.wobble_duration_sum     = 0,
               !.wobble_weighted_pos_sum = << 0, 0 >>,
               !.wobble_distance_sum     = 0,
               !.state_modeler           =
                   StateModeler_reset(m.state_modeler,
                       p.stylus_state_modeler_max_input_samples) ]

\* the assignments of reset_w_params after params.validate()? has passed;
\* self.params is not among them
ResetWParamsBody(m, p) ==
    [ m EXCEPT !.last_event              = None,
               !.wobble_deque            = <<>>,
               !.wobble_duration_sum     = 0,
               !.wobble_weighted_pos_sum = << 0, 0 >>,
               !.wobble_distance_sum     = 0,
               !.position_modeler        = None,
               !.state_modeler           =
                   StateModeler_reset(m.state_modeler,
                       p.stylus_state_modeler_max_input_samples) ]

\* (mutant) the modeler is cleared before the parameters are validated
reset_w_params_ClearsFirst(m, p) ==
    [ ok |-> validate(p), m |-> ResetWParamsBody(m, p) ]

StrokeModeler_reset_w_params(m, p) ==
    IF ~validate(p)
    THEN [ ok |-> FALSE, m |-> m ]
    ELSE [ ok |-> TRUE, m |-> ResetWParamsBody(m, p) ]

\* (mutant) no sample is ever old enough to leave the ring
WobbleExpired_Never(front_el, event_time, timeout) == FALSE

\* the condition of the while loop of wobble_update
WobbleExpired(front_el, event_time, timeout) == front_el.time < event_time - timeout

\* the while loop of wobble_update: evict samples older than the timeout
RECURSIVE WobbleEvict(_, _)
WobbleEvict(m, event_time) ==
    IF WobbleExpired(Head(m.wobble_deque), event_time, m.params.wobble_smoother_timeout)
    THEN LET front_el == Head(m.wobble_deque)
         IN  WobbleEvict(
                 [ m EXCEPT !.wobble_deque = Tail(m.wobble_deque),
                            !.wobble_weighted_pos_sum =
                                << m.wobble_weighted_pos_sum[1] - front_el.weighted_position[1],
                                   m.wobble_weighted_pos_sum[2] - front_el.weighted_position[2] >>,
                            !.wobble_distance_sum = m.wobble_distance_sum - front_el.distance,
                            !.wobble_duration_sum = m.wobble_duration_sum - front_el.duration ],
                 event_time)
    ELSE m

\* wobble_update: the new modeler and the returned (smoothed) position
wobble_update(m, event) ==
    IF Len(m.wobble_deque) = 0
    THEN [ m   |-> [ m EXCEPT !.wobble_deque =
                       << [ position          |-> event.pos,
                            weighted_position |-> << 0, 0 >>,
                            distance          |-> 0,
                            duration          |-> 0,
                            time              |-> event.time ] >> ],
           pos |-> event.pos ]
    ELSE LET last_el      == m.wobble_deque[Len(m.wobble_deque)]
             duration     == event.time - last_el.time
             weighted_pos == << MulF32(event.pos[1], AsF32(duration)),
                                MulF32(event.pos[2], AsF32(duration)) >>
             distance     == dist(event.pos, last_el.position)
             pushed ==
                 [ m EXCEPT !.wobble_deque = Append(m.wobble_deque,
                                [ position          |-> event.pos,
                                  weighted_position |-> weighted_pos,
                                  distance          |-> distance,
                                  duration          |-> duration,
                                  time              |-> event.time ]),
                            !.wobble_weighted_pos_sum =
                                << m.wobble_weighted_pos_sum[1] + weighted_pos[1],
                                   m.wobble_weighted_pos_sum[2] + weighted_pos[2] >>,
                            !.wobble_distance_sum = m.wobble_distance_sum + distance,
                            !.wobble_duration_sum = m.wobble_duration_sum + duration ]
             \* the part after the while loop, on the modeler it leaves
             Smoothed(evicted) ==
                 \* wobble_duration_sum < 1e-12: below the smallest positive grid value
                 IF evicted.wobble_duration_sum < 1
                 THEN [ m |-> evicted, pos |-> event.pos ]
                 ELSE LET dsum32 == AsF32(evicted.wobble_duration_sum)
                          avg_x  == DivF32(evicted.wobble_weighted_pos_sum[1], dsum32)
                          avg_y  == DivF32(evicted.wobble_weighted_pos_sum[2], dsum32)
                          Interpolated(norm_value) ==
                              [ m   |-> evicted,
                                pos |-> << interp(avg_x, event.pos[1], norm_value),
                                           interp(avg_y, event.pos[2], norm_value) >> ]
                      IN  Interpolated(normalize01_32(
                              evicted.params.wobble_smoother_speed_floor,
                              evicted.params.wobble_smoother_speed_ceiling,
                              DivF32(evicted.wobble_distance_sum, dsum32)))
         IN  Smoothed(WobbleEvict(pushed, event.time))

\* .map(|i| ModelerResult { pressure: self.state_modeler.query(i.pos), .. })
WithPressure(sm, partials) ==
    [ k \in 1..Len(partials) |->
        [ pos          |-> partials[k].pos,
          velocity     |-> partials[k].velocity,
          acceleration |-> partials[k].acceleration,
          time         |-> partials[k].time,
          pressure     |-> StateModeler_query(sm, partials[k].pos) ] ]

\* (mutant) the number of steps is capped at sampling_max_outputs_per_call
NTSteps_Capped(p, latest_time, new_time) ==
    Min(CeilAsI32(MulF64(new_time - latest_time, p.sampling_min_output_rate)),
        p.sampling_max_outputs_per_call)

\* the number of steps of a Move or an Up
NTSteps(p, latest_time, new_time) ==
    Min(CeilAsI32(MulF64(new_time - latest_time, p.sampling_min_output_rate)), I32_MAX)

Ok(m, out) == [ ok |-> TRUE, m |-> m, out |-> out, err |-> "" ]
Err(m, msg) == [ ok |-> FALSE, m |-> m, out |-> <<>>, err |-> msg ]

\* A call that panics returns nothing: ok is FALSE, err is the panic
\* message and m is the modeler as the panic found it.
PanicMessages == { "attempt to add with overflow", "capacity overflow" }
Panic(m, msg) == [ ok |-> FALSE, m |-> m, out |-> <<>>, err |-> msg ]

\* (mutant) the pressure is left at ModelerResult::default()'s
DownResult_DefaultPressure(input) ==
    [ pos          |-> input.pos,
      velocity     |-> << 0, 0 >>,
      acceleration |-> << 0, 0 >>,
      time         |-> input.time,
      pressure     |-> F32 ]

\* the single result of a Down
DownResult(input) ==
    [ pos          |-> input.pos,
      velocity     |-> << 0, 0 >>,
      acceleration |-> << 0, 0 >>,
      time         |-> input.time,
      pressure     |-> input.pressure ]

\* (mutant) the Down arm does not store the corrected position
DownAccepted_NoCorrected(m, input) ==
    LET Started(w) ==
            [ w EXCEPT !.position_modeler = Some(PositionModeler_new(w.params, input)),
                       !.last_event = Some(input),
                       !.state_modeler =
                           StateModeler_update(
                               StateModeler_reset(w.state_modeler,
                                   w.params.stylus_state_modeler_max_input_samples),
                               input) ]
    IN  Ok(Started(wobble_update(m, input).m), << DownResult(input) >>)

\* the Down arm after its last_event check
DownAccepted(m, input) ==
    LET \* the assignments after self.wobble_update, on the modeler it leaves
        Started(w) ==
            [ w EXCEPT !.position_modeler = Some(PositionModeler_new(w.params, input)),
                       !.last_event = Some(input),
                       !.last_corrected_event = Some(input.pos),
                       !.state_modeler =
                           StateModeler_update(
                               StateModeler_reset(w.state_modeler,
                                   w.params.stylus_state_modeler_max_input_samples),
                               input) ]
    IN  Ok(Started(wobble_update(m, input).m), << DownResult(input) >>)

\* (mutant) Down is accepted while a stroke is in progress
update_Down_Unchecked(m, input) == DownAccepted(m, input)

update_Down(m, input) ==
    IF IsSome(m.last_event)
    THEN Err(m, "down event is not the first event or a down event occured after another one")
    ELSE DownAccepted(m, input)

\* (mutant) the path starts at the raw position of the previous event
PathStart_RawEvent(m) == Unwrap(m.last_event).pos

\* p_start of the Move and Up arms
PathStart(m) == Unwrap(m.last_corrected_event)

\* the Move arm after its last_event check
MoveAccepted(m, input) ==
    LET latest_time == Unwrap(m.last_event).time
        new_time    == input.time
        n_tsteps    == NTSteps(m.params, latest_time, new_time)
        p_start     == PathStart(m)
        \* the result and the last assignments, given what wobble_update (w)
        \* and update_along_linear_path (path) returned
        Finished(w, path) ==
            Ok([ w.m EXCEPT !.position_modeler     = Some(path.pm),
                            !.last_event           = Some(input),
                            !.last_corrected_event = Some(w.pos) ],
               WithPressure(w.m.state_modeler, path.out))
        Sampled(w) ==
            Finished(w, update_along_linear_path(Unwrap(w.m.position_modeler),
                            p_start, latest_time, w.pos, new_time, n_tsteps))
    IN  Sampled(wobble_update(
            [ m EXCEPT !.state_modeler = StateModeler_update(m.state_modeler, input) ],
            input))

update_Move(m, input) ==
    IF ~IsSome(m.last_event)
    THEN Err(m, "no Down event occurred before a Move event")
    ELSE MoveAccepted(m, input)

\* (mutant) the synthetic result carries the state's own time
SyntheticResult_StateTime(m) ==
    LET state_pos == Unwrap(m.position_modeler).state
    IN  [ pos          |-> state_pos.pos,
          velocity     |-> state_pos.velocity,
          acceleration |-> state_pos.acceleration,
          time         |-> state_pos.time,
          pressure     |-> StateModeler_query(m.state_modeler, state_pos.pos) ]

\* the result pushed by the Up arm when vec_out.is_empty()
SyntheticResult(m) ==
    LET state_pos == Unwrap(m.position_modeler).state
    IN  [ pos          |-> state_pos.pos,
          velocity     |-> state_pos.velocity,
          acceleration |-> state_pos.acceleration,
          time         |-> state_pos.time + OutputPeriod(m.params),
          pressure     |-> StateModeler_query(m.state_modeler, state_pos.pos) ]

\* (mutant) the Up's path ends at the raw position of the event
UpPathEnd_Raw(w, input) == input.pos

\* p_end of the Up arm: the position wobble_update returned (w), as for Move
UpPathEnd(w, input) == w.pos

\* (n_tsteps as usize) + max_iterations of the Up arm.  A negative i32 cast
\* to usize is 2^64 + n_tsteps, so the sum passes 2^64 exactly when
\* n_tsteps < 0 <= n_tsteps + max_iterations; without that it is at most
\* 2^31 + 999 for n_tsteps >= 0 and at least 2^64 - 2^31 for n_tsteps < 0.
UpCapacityWraps(n_tsteps, max_iterations) ==
    n_tsteps < 0 /\ n_tsteps + max_iterations >= 0

\* Vec::<ModelerResult>::with_capacity(capacity) panics when capacity times
\* the 40 bytes of a ModelerResult exceeds isize::MAX
UpCapacityTooLarge(n_tsteps, max_iterations) ==
    n_tsteps < 0 /\ n_tsteps + max_iterations < 0

\* the panic of the line that allocates vec_out, "" when there is none: the
\* addition panics on overflow in a build with overflow checks and wraps to
\* n_tsteps + max_iterations in one without
UpCapacityPanic(n_tsteps, max_iterations, overflow_checks) ==
    IF UpCapacityWraps(n_tsteps, max_iterations) /\ overflow_checks
    THEN "attempt to add with overflow"
    ELSE IF UpCapacityTooLarge(n_tsteps, max_iterations)
    THEN "capacity overflow"
    ELSE ""

\* the Up arm after its last_event check
UpAccepted(m, input, overflow_checks) ==
    LET latest_time == Unwrap(m.last_event).time
        new_time    == input.time
        n_tsteps    == NTSteps(m.params, latest_time, new_time)
        p_start     == PathStart(m)
        \* the result and the last assignment, given the modeler m2 after the
        \* catch-up and the results collected so far
        Finished(m2, vec_out) ==
            Ok([ m2 EXCEPT !.last_event = None ],
               IF Len(vec_out) = 0 THEN << SyntheticResult(m2) >> ELSE vec_out)
        \* given what wobble_update (w), update_along_linear_path (path) and
        \* model_end_of_stroke (tail) returned
        CaughtUp(w, path, tail) ==
            Finished([ w.m EXCEPT !.position_modeler = Some(tail.pm) ],
                     WithPressure(w.m.state_modeler, path.out \o tail.out))
        Sampled(w, path) ==
            CaughtUp(w, path,
                     model_end_of_stroke(path.pm, input.pos,
                         OutputPeriod(w.m.params),
                         w.m.params.sampling_end_of_stroke_max_iterations,
                         w.m.params.sampling_end_of_stroke_stopping_distance))
        Allocated(w) ==
            Sampled(w, update_along_linear_path(Unwrap(w.m.position_modeler),
                           p_start, latest_time, UpPathEnd(w, input), new_time,
                           n_tsteps))
        Wobbled(w) ==
            IF UpCapacityPanic(n_tsteps, m.params.sampling_end_of_stroke_max_iterations,
                               overflow_checks) # ""
            THEN Panic(w.m, UpCapacityPanic(n_tsteps,
                                m.params.sampling_end_of_stroke_max_iterations,
                                overflow_checks))
            ELSE Allocated(w)
    IN  Wobbled(wobble_update(
            [ m EXCEPT !.state_modeler = StateModeler_update(m.state_modeler, input) ],
            input))

\* (mutant) the Up does not remove the last event
update_Up_KeepsEvent(m, input, overflow_checks) ==
    IF ~IsSome(m.last_event)
    THEN Err(m, "No event occured before an up event")
    ELSE [ UpAccepted(m, input, overflow_checks) EXCEPT !.m.last_event = Some(input) ]

update_Up(m, input, overflow_checks) ==
    IF ~IsSome(m.last_event)
    THEN Err(m, "No event occured before an up event")
    ELSE UpAccepted(m, input, overflow_checks)

\* update in a build with (overflow_checks) or without overflow checks
StrokeModeler_update(m, input, overflow_checks) ==
    CASE input.event_type = "Down" -> update_Down(m, input)
      [] input.event_type = "Move" -> update_Move(m, input)
      [] input.event_type = "Up"   -> update_Up(m, input, overflow_checks)

StrokeModeler_predict(m) ==
    IF ~IsSome(m.last_event)
    THEN Err(m, "empty input events")
    ELSE LET Predicted(eos) ==
                 Ok([ m EXCEPT !.position_modeler = Some(eos.pm) ],
                    WithPressure(m.state_modeler, eos.out))
         IN  Predicted(model_end_of_stroke(Unwrap(m.position_modeler),
                           Unwrap(m.last_event).pos,
                           OutputPeriod(m.params),
                           m.params.sampling_end_of_stroke_max_iterations,
                           m.params.sampling_end_of_stroke_stopping_distance))

\* ------------------------------------------------------------------ state
VARIABLES
    \* the fields of StrokeModeler
    params, wobble_deque, wobble_weighted_pos_sum, wobble_duration_sum,
    wobble_distance_sum, position_modeler, last_event, last_corrected_event,
    state_modeler,
    \* the caller: the last call made, what it returned, the time of the
    \* last event sent, the number of calls made, and whether the calls made
    \* so far leave a stroke open (Idle / InStroke of the state machine)
    call, ret, clock, ncalls, phase,
    \* the call made before the last one: its name, whether it returned Ok,
    \* and whether a stroke was open when it was made
    prev,
    \* a second modeler that receives every call except predict, and what
    \* the last call returns on it
    np, np_ret,
    \* a modeler constructed by StrokeModeler::new at Init and again at each
    \* reset (with the current parameters) and each successful
    \* reset_w_params (with the given ones), which then receives the same
    \* calls; what the last call returned on it; and which of the three
    \* constructed it
    fresh, fresh_ret, fresh_tag,
    \* the time of the last result of the latest update that returned
    \* results (-1 before the first)
    emitted,
    \* the parameters given to new or to the last reset_w_params that
    \* returned Ok
    in_force,
    \* the state the other reset operation would have left in place of the
    \* last reset / reset_w_params
    alt,
    \* the parameter set the caller holds and may validate, construct a
    \* modeler with or reset the modeler with (SpecValidate)
    given,
    \* the inputs given to state_modeler.update since the state modeler was
    \* constructed or last reset (SpecHistory)
    sent

modeler_vars == << params, wobble_deque, wobble_weighted_pos_sum, wobble_duration_sum,
                   wobble_distance_sum, position_modeler, last_event,
                   last_corrected_event, state_modeler >>

vars == << params, wobble_deque, wobble_weighted_pos_sum, wobble_duration_sum,
           wobble_distance_sum, position_modeler, last_event, last_corrected_event,
           state_modeler, call, ret, clock, ncalls, phase, prev, np, np_ret,
           fresh, fresh_ret, fresh_tag, emitted, in_force, alt, given, sent >>

\* the modeler as one value
Self ==
    [ params                  |-> params,
      last_event              |-> last_event,
      last_corrected_event    |-> last_corrected_event,
      wobble_deque            |-> wobble_deque,
      wobble_duration_sum     |-> wobble_duration_sum,
      wobble_weighted_pos_sum |-> wobble_weighted_pos_sum,
      wobble_distance_sum     |-> wobble_distance_sum,
      position_modeler        |-> position_modeler,
      state_modeler           |-> state_modeler ]

\* *self = m
Assign(m) ==
    /\ params'                  = m.params
    /\ last_event'              = m.last_event
    /\ last_corrected_event'    = m.last_corrected_event
    /\ wobble_deque'            = m.wobble_deque
    /\ wobble_duration_sum'     = m.wobble_duration_sum
    /\ wobble_weighted_pos_sum' = m.wobble_weighted_pos_sum
    /\ wobble_distance_sum'     = m.wobble_distance_sum
    /\ position_modeler'        = m.position_modeler
    /\ state_modeler'           = m.state_modeler

\* what a call returns to the caller
Returned(r) == [ ok |-> r.ok, out |-> r.out, err |-> r.err ]

\* the inputs the caller sends: position and pressure, and the time since
\* the previous event
Samples == { [ pos |-> << 0, 0 >>,     pressure |-> F32 ],
             [ pos |-> << F32, 0 >>,   pressure |-> F32 \div 2 ],
             [ pos |-> << F32, F32 >>, pressure |-> F32 \div 4 ] }
Deltas  == { 0, Tick }

\* the state after StrokeModeler::new(p), the position modeler apart
ConstructedRest(p) ==
    /\ params                  = StrokeModeler_new(p).params
    /\ last_event              = StrokeModeler_new(p).last_event
    /\ last_corrected_event    = StrokeModeler_new(p).last_corrected_event
    /\ wobble_deque            = StrokeModeler_new(p).wobble_deque
    /\ wobble_duration_sum     = StrokeModeler_new(p).wobble_duration_sum
    /\ wobble_weighted_pos_sum = StrokeModeler_new(p).wobble_weighted_pos_sum
    /\ wobble_distance_sum     = StrokeModeler_new(p).wobble_distance_sum
    /\ state_modeler           = StrokeModeler_new(p).state_modeler
    /\ call = [ op |-> "new", p |-> p, was |-> "Idle" ]
    /\ ret = [ ok |-> TRUE, out |-> <<>>, err |-> "" ]
    /\ clock = 0
    /\ ncalls = 0
    /\ phase = "Idle"
    /\ prev = [ op |-> "none", ok |-> TRUE, was |-> "Idle" ]
    /\ np = StrokeModeler_new(p)
    /\ np_ret = [ ok |-> TRUE, out |-> <<>>, err |-> "" ]
    /\ fresh = StrokeModeler_new(p)
    /\ fresh_ret = [ ok |-> TRUE, out |-> <<>>, err |-> "" ]
    /\ fresh_tag = "new"
    /\ emitted = -1
    /\ in_force = p
    /\ alt = StrokeModeler_new(p)
    /\ sent = <<>>

\* the state after StrokeModeler::new(p)
Constructed(p) ==
    /\ ConstructedRest(p)
    /\ position_modeler = StrokeModeler_new(p).position_modeler

Init == Constructed(P1) /\ given = P1

\* the modeler is constructed with either valid parameter set
InitAny == \E p \in { P1, P2 } : Constructed(p) /\ given = p

\* the caller holds any parameter set of the grid
InitGiven == Constructed(P1) /\ given \in ParamGrid

\* a call has panicked: the caller makes no further call
Aborted == ret.err \in PanicMessages

\* engine.update(input) with input made of the three choices, in either
\* build: with or without overflow checks
UpdateCall(event_type, sample, delta) ==
    /\ ~Aborted
    /\ clock + delta >= 0
    /\ clock + delta <= MaxTicks * Tick
    /\ LET input == [ event_type |-> event_type, pos |-> sample.pos,
                      time |-> clock + delta, pressure |-> sample.pressure ]
           \* the two builds differ only where the sum of the Up arm overflows
           Wraps(m) ==
               /\ event_type = "Up"
               /\ IsSome(m.last_event)
               /\ UpCapacityWraps(NTSteps(m.params, Unwrap(m.last_event).time, input.time),
                                  m.params.sampling_end_of_stroke_max_iterations)
           \* r, rn, rf: what update returns on the modeler, on np, on fresh
           Called(r, rn, rf) ==
               /\ Assign(r.m)
               /\ call' = [ op |-> "update", input |-> input, was |-> phase ]
               /\ ret' = Returned(r)
               /\ clock' = input.time
               /\ phase' = IF ~r.ok THEN phase
                           ELSE IF event_type = "Up" THEN "Idle" ELSE "InStroke"
               /\ np' = rn.m
               /\ np_ret' = Returned(rn)
               /\ fresh' = rf.m
               /\ fresh_ret' = Returned(rf)
               /\ emitted' = IF r.ok /\ Len(r.out) > 0
                              THEN r.out[Len(r.out)].time ELSE emitted
       IN  \E overflow_checks \in
                  (IF Wraps(Self) \/ Wraps(np) \/ Wraps(fresh) THEN BOOLEAN ELSE { FALSE }) :
               Called(StrokeModeler_update(Self, input, overflow_checks),
                      StrokeModeler_update(np, input, overflow_checks),
                      StrokeModeler_update(fresh, input, overflow_checks))
    /\ ncalls' = ncalls + 1
    /\ prev' = [ op |-> call.op, ok |-> ret.ok, was |-> call.was ]
    /\ UNCHANGED << fresh_tag, in_force, alt, given, sent >>

\* any event at any point of the protocol
Update ==
    /\ ncalls < MaxCalls
    /\ \E event_type \in EventTypes, sample \in Samples, delta \in Deltas :
          UpdateCall(event_type, sample, delta)

\* engine.predict()
Predict ==
    /\ ncalls < MaxCalls
    /\ ~Aborted
    /\ LET \* r, rn, rf: what predict returns on the modeler, on np, on fresh
           Called(r, rn, rf) ==
               /\ Assign(r.m)
               /\ call' = [ op |-> "predict", was |-> phase ]
               /\ ret' = Returned(r)
               /\ np_ret' = Returned(rn)
               /\ fresh' = rf.m
               /\ fresh_ret' = Returned(rf)
       IN  Called(StrokeModeler_predict(Self), StrokeModeler_predict(np),
                  StrokeModeler_predict(fresh))
    /\ ncalls' = ncalls + 1
    /\ prev' = [ op |-> call.op, ok |-> ret.ok, was |-> call.was ]
    /\ UNCHANGED << clock, phase, np, fresh_tag, emitted, in_force, alt, given, sent >>

\* engine.reset()
ResetCall ==
    /\ ~Aborted
    /\ Assign(StrokeModeler_reset(Self))
    /\ call' = [ op |-> "reset", was |-> phase ]
    /\ ret' = [ ok |-> TRUE, out |-> <<>>, err |-> "" ]
    /\ phase' = "Idle"
    /\ np' = StrokeModeler_reset(np)
    /\ np_ret' = [ ok |-> TRUE, out |-> <<>>, err |-> "" ]
    /\ fresh' = StrokeModeler_new(params)
    /\ fresh_ret' = [ ok |-> TRUE, out |-> <<>>, err |-> "" ]
    /\ fresh_tag' = "reset"
    /\ alt' = ResetWParamsBody(Self, params)
    /\ ncalls' = ncalls + 1
    /\ prev' = [ op |-> call.op, ok |-> ret.ok, was |-> call.was ]
    /\ UNCHANGED << clock, emitted, in_force, given, sent >>

Reset ==
    /\ ncalls < MaxCalls
    /\ ResetCall

\* engine.reset_w_params(p)
ResetWParamsCall(p) ==
    /\ ~Aborted
    /\ LET \* r, rn: what reset_w_params returns on the modeler and on np
           Called(r, rn) ==
               /\ Assign(r.m)
               /\ call' = [ op |-> "reset_w_params", p |-> p, was |-> phase ]
               /\ ret' = [ ok |-> r.ok, out |-> <<>>,
                           err |-> IF r.ok THEN "" ELSE "the following errors occured : " ]
               /\ phase' = IF r.ok THEN "Idle" ELSE phase
               /\ np' = rn.m
               /\ np_ret' = [ ok |-> rn.ok, out |-> <<>>,
                              err |-> IF rn.ok THEN "" ELSE "the following errors occured : " ]
               /\ fresh' = IF r.ok THEN StrokeModeler_new(p) ELSE fresh
               /\ fresh_ret' = ret'
               /\ fresh_tag' = IF r.ok THEN "reset_w_params" ELSE fresh_tag
               /\ alt' = StrokeModeler_reset(Self)
               /\ in_force' = IF r.ok THEN p ELSE in_force
       IN  Called(StrokeModeler_reset_w_params(Self, p),
                  StrokeModeler_reset_w_params(np, p))
    /\ ncalls' = ncalls + 1
    /\ prev' = [ op |-> call.op, ok |-> ret.ok, was |-> call.was ]
    /\ UNCHANGED << clock, emitted, given, sent >>

ResetWParams ==
    /\ ncalls < MaxCalls
    /\ \E p \in ParamSets : ResetWParamsCall(p)

Next == Update \/ Predict \/ Reset \/ ResetWParams

Spec == Init /\ [][Next]_vars

\* a caller that never resets: update and predict alone
NextCalls == Update \/ Predict

SpecCalls == Init /\ [][NextCalls]_vars

\* the same calls on a modeler constructed with either parameter set
SpecParams == InitAny /\ [][Next]_vars

\* the same calls on a modeler constructed with the smoothing parameter set
InitSmoothing == Constructed(P3) /\ given = P3

SpecSmoothing == InitSmoothing /\ [][Next]_vars

\* The wobble smoother after a jump.  Jumped(a, b) is the modeler after
\* new(P3), Down at a (time 0), Move at a (one tick later) and Move at b (at
\* the same time), a and b on the x axis: the ring holds the three
\* samples, the window average is a, the window speed the length of the
\* jump, and the position modeler rests at a.
FarStarts == { << 2^24 + 2, 0 >>, << 2^23, 0 >>, << 2 * F32, 0 >> }
JumpEnds == { << 1, 0 >>, << F32, 0 >> }
FineSamples == { [ pos |-> << 1, 0 >>,   pressure |-> F32 ],
                 [ pos |-> << 3, 0 >>,   pressure |-> F32 \div 2 ],
                 [ pos |-> << F32, 0 >>, pressure |-> F32 \div 4 ] }

\* the distance of two positions of the x axis, as dist computes it
JumpLength(a, b) == RoundToF32(IF a[1] >= b[1] THEN a[1] - b[1] ELSE b[1] - a[1])

JumpedEvent(event_type, pos, time) ==
    [ event_type |-> event_type, pos |-> pos, time |-> time, pressure |-> F32 ]

Jumped(a, b) ==
    [ params                  |-> P3,
      last_event              |-> Some(JumpedEvent("Move", b, Tick)),
      last_corrected_event    |->
          Some(<< interp(a[1], b[1],
                         normalize01_32(P3.wobble_smoother_speed_floor,
                                        P3.wobble_smoother_speed_ceiling,
                                        DivF32(JumpLength(a, b), AsF32(Tick)))),
                  0 >>),
      wobble_deque            |->
          << [ position |-> a, weighted_position |-> << 0, 0 >>,
               distance |-> 0, duration |-> 0, time |-> 0 ],
             [ position |-> a, weighted_position |-> << MulF32(a[1], AsF32(Tick)), 0 >>,
               distance |-> 0, duration |-> Tick, time |-> Tick ],
             [ position |-> b, weighted_position |-> << 0, 0 >>,
               distance |-> JumpLength(a, b), duration |-> 0, time |-> Tick ] >>,
      wobble_duration_sum     |-> Tick,
      wobble_weighted_pos_sum |-> << MulF32(a[1], AsF32(Tick)), 0 >>,
      wobble_distance_sum     |-> JumpLength(a, b),
      position_modeler        |->
          Some(PositionModeler_new(P3, [ pos |-> a, time |-> Tick ])),
      state_modeler           |->
          [ stylus_state_modeler_max_input_samples |->
                P3.stylus_state_modeler_max_input_samples,
            last_strokes |-> << JumpedEvent("Down", a, 0), JumpedEvent("Move", a, Tick),
                                JumpedEvent("Move", b, Tick) >> ] ]

\* a modeler just constructed, or one that has just made a jump
InitWobble ==
    \/ Constructed(P3) /\ given = P3
    \/ \E a \in FarStarts, b \in JumpEnds :
          /\ params                  = Jumped(a, b).params
          /\ last_event              = Jumped(a, b).last_event
          /\ last_corrected_event    = Jumped(a, b).last_corrected_event
          /\ wobble_deque            = Jumped(a, b).wobble_deque
          /\ wobble_duration_sum     = Jumped(a, b).wobble_duration_sum
          /\ wobble_weighted_pos_sum = Jumped(a, b).wobble_weighted_pos_sum
          /\ wobble_distance_sum     = Jumped(a, b).wobble_distance_sum
          /\ position_modeler        = Jumped(a, b).position_modeler
          /\ state_modeler           = Jumped(a, b).state_modeler
          /\ call = [ op |-> "update", input |-> JumpedEvent("Move", b, Tick),
                      was |-> "InStroke" ]
          /\ ret = [ ok |-> TRUE, out |-> <<>>, err |-> "" ]
          /\ clock = Tick
          /\ ncalls = 0
          /\ phase = "InStroke"
          /\ prev = [ op |-> "update", ok |-> TRUE, was |-> "InStroke" ]
          /\ np = Jumped(a, b)
          /\ np_ret = [ ok |-> TRUE, out |-> <<>>, err |-> "" ]
          /\ fresh = Jumped(a, b)
          /\ fresh_ret = [ ok |-> TRUE, out |-> <<>>, err |-> "" ]
          /\ fresh_tag = "new"
          /\ emitted = Tick
          /\ in_force = P3
          /\ alt = StrokeModeler_new(P3)
          /\ given = P3
          /\ sent = <<>>

\* self.wobble_update(&event), the first statement of update that changes
\* the modeler after the checks of the Move and Up arms (and of the Down arm)
WobbleUpdate ==
    /\ ncalls < MaxWobbleCalls
    /\ \E sample \in FineSamples, delta \in Deltas :
          LET event == [ event_type |-> "Move", pos |-> sample.pos,
                         time |-> clock + delta, pressure |-> sample.pressure ]
              Returns(w) ==
                  /\ Assign(w.m)
                  /\ ret' = [ ok |-> TRUE, out |-> << w.pos >>, err |-> "" ]
          IN  /\ Returns(wobble_update(Self, event))
              /\ call' = [ op |-> "wobble_update", event |-> event, was |-> phase ]
              /\ clock' = event.time
    /\ ncalls' = ncalls + 1
    /\ prev' = [ op |-> call.op, ok |-> ret.ok, was |-> call.was ]
    /\ UNCHANGED << phase, np, np_ret, fresh, fresh_ret, fresh_tag, emitted, in_force,
                    alt, given, sent >>

NextWobble == WobbleUpdate

SpecWobble == InitWobble /\ [][NextWobble]_vars

\* The state modeler on its own, constructed with any of the capacities:
\* inputs of any position with any pressure, resets to any capacity, and
\* queries at the positions and between them.
HistoryCapacities == 0..3
Pressures == { F32, F32 \div 4 }
HistoryInputs ==
    { [ event_type |-> "Move", pos |-> sample.pos, time |-> 0, pressure |-> pressure ] :
          sample \in Samples, pressure \in Pressures }
QueryPositions == { << 0, 0 >>, << F32 \div 2, 0 >>, << F32, F32 \div 4 >>,
                    << 2 * F32, F32 >> }

InitHistory ==
    \E max_input \in HistoryCapacities :
        /\ Constructed([ P1 EXCEPT !.stylus_state_modeler_max_input_samples = max_input ])
        /\ given = [ P1 EXCEPT !.stylus_state_modeler_max_input_samples = max_input ]

\* state_modeler.update(input)
StateUpdate ==
    /\ ncalls < MaxHistoryCalls
    /\ \E input \in HistoryInputs :
          /\ state_modeler' = StateModeler_update(state_modeler, input)
          /\ call' = [ op |-> "state_update", input |-> input, was |-> phase ]
          /\ sent' = Append(sent, input)
    /\ ret' = [ ok |-> TRUE, out |-> <<>>, err |-> "" ]
    /\ ncalls' = ncalls + 1
    /\ prev' = [ op |-> call.op, ok |-> ret.ok, was |-> call.was ]
    /\ UNCHANGED << params, wobble_deque, wobble_weighted_pos_sum, wobble_duration_sum,
                    wobble_distance_sum, position_modeler, last_event,
                    last_corrected_event, clock, phase, np, np_ret, fresh, fresh_ret,
                    fresh_tag, emitted, in_force, alt, given >>

\* state_modeler.reset(max_input)
StateReset ==
    /\ ncalls < MaxHistoryCalls
    /\ \E max_input \in HistoryCapacities :
          /\ state_modeler' = StateModeler_reset(state_modeler, max_input)
          /\ call' = [ op |-> "state_reset", max_input |-> max_input, was |-> phase ]
    /\ sent' = <<>>
    /\ ret' = [ ok |-> TRUE, out |-> <<>>, err |-> "" ]
    /\ ncalls' = ncalls + 1
    /\ prev' = [ op |-> call.op, ok |-> ret.ok, was |-> call.was ]
    /\ UNCHANGED << params, wobble_deque, wobble_weighted_pos_sum, wobble_duration_sum,
                    wobble_distance_sum, position_modeler, last_event,
                    last_corrected_event, clock, phase, np, np_ret, fresh, fresh_ret,
                    fresh_tag, emitted, in_force, alt, given >>

\* state_modeler.query(pos): the pressure is the one result
StateQuery ==
    /\ \E pos \in QueryPositions :
          /\ ret' = [ ok |-> TRUE, out |-> << StateModeler_query(state_modeler, pos) >>,
                      err |-> "" ]
          /\ call' = [ op |-> "state_query", pos |-> pos, was |-> phase ]
    /\ prev' = [ op |-> call.op, ok |-> ret.ok, was |-> call.was ]
    /\ UNCHANGED << modeler_vars, clock, ncalls, phase, np, np_ret, fresh, fresh_ret,
                    fresh_tag, emitted, in_force, alt, given, sent >>

NextHistory == StateUpdate \/ StateReset \/ StateQuery

SpecHistory == InitHistory /\ [][NextHistory]_vars

\* given.validate()
ValidateGiven ==
    /\ ncalls < MaxParamCalls
    /\ call' = [ op |-> "validate", p |-> given, was |-> phase ]
    /\ ret' = [ ok |-> validate(given), out |-> <<>>,
                err |-> IF validate(given) THEN "" ELSE "the following errors occured : " ]
    /\ np_ret' = ret'
    /\ fresh_ret' = ret'
    /\ ncalls' = ncalls + 1
    /\ prev' = [ op |-> call.op, ok |-> ret.ok, was |-> call.was ]
    /\ UNCHANGED << modeler_vars, clock, phase, np, fresh, fresh_tag, emitted,
                    in_force, alt, given, sent >>

\* StrokeModeler::new(given): the modeler it returns takes the place of the
\* caller's, an error leaves the caller with the one it had
NewGiven ==
    /\ ncalls < MaxParamCalls
    /\ call' = [ op |-> "new", p |-> given, was |-> phase ]
    /\ ret' = [ ok |-> new(given).ok, out |-> <<>>,
                err |-> IF new(given).ok THEN "" ELSE "the following errors occured : " ]
    /\ np_ret' = ret'
    /\ fresh_ret' = ret'
    /\ IF new(given).ok
       THEN /\ Assign(Unwrap(new(given).m))
            /\ clock' = 0
            /\ phase' = "Idle"
            /\ np' = Unwrap(new(given).m)
            /\ fresh' = Unwrap(new(given).m)
            /\ fresh_tag' = "new"
            /\ emitted' = -1
            /\ in_force' = given
            /\ alt' = Unwrap(new(given).m)
       ELSE UNCHANGED << modeler_vars, clock, phase, np, fresh, fresh_tag, emitted,
                         in_force, alt >>
    /\ ncalls' = ncalls + 1
    /\ prev' = [ op |-> call.op, ok |-> ret.ok, was |-> call.was ]
    /\ UNCHANGED << given, sent >>

\* engine.reset_w_params(given)
ResetWParamsGiven ==
    /\ ncalls < MaxParamCalls
    /\ ResetWParamsCall(given)

NextValidate == ValidateGiven \/ NewGiven \/ ResetWParamsGiven

SpecValidate == InitGiven /\ [][NextValidate]_vars

\* The position modeler on its own: any position and velocity of the grid
\* at time 0, with the constants of either parameter set.
Velocities == { << 0, 0 >>, << 0 - F32, F32 >> }
PathSteps == { Tick \div 2, Tick }
EndOfStrokeLimits == 1..3
EndOfStrokeStops == { 1, F32 \div 4 }

InitCatchUp ==
    \E p \in { P1, P2 }, sample \in Samples, v \in Velocities :
        /\ ConstructedRest(p)
        /\ given = p
        /\ position_modeler =
               Some([ PositionModeler_new(p, [ pos |-> sample.pos, time |-> 0 ])
                          EXCEPT !.state.velocity = v ])

\* position_modeler.update(anchor_pos, time)
PositionUpdate ==
    /\ ncalls < MaxPathSteps
    /\ \E sample \in Samples, dt \in PathSteps :
          /\ position_modeler' =
                 Some(PositionModeler_update(Unwrap(position_modeler), sample.pos,
                          Unwrap(position_modeler).state.time + dt))
          /\ call' = [ op |-> "position_update", anchor_pos |-> sample.pos,
                       time |-> Unwrap(position_modeler).state.time + dt, was |-> phase ]
    /\ ret' = [ ok |-> TRUE, out |-> << Unwrap(position_modeler').state >>, err |-> "" ]
    /\ ncalls' = ncalls + 1
    /\ prev' = [ op |-> call.op, ok |-> ret.ok, was |-> call.was ]
    /\ UNCHANGED << params, wobble_deque, wobble_weighted_pos_sum, wobble_duration_sum,
                    wobble_distance_sum, last_event, last_corrected_event, state_modeler,
                    clock, phase, np, np_ret, fresh, fresh_ret, fresh_tag, emitted,
                    in_force, alt, given, sent >>

\* position_modeler.model_end_of_stroke(anchor_pos, delta_time,
\* max_iterations, stop_distance); ret also holds the locals of the loop
\* at the return
EndOfStroke ==
    /\ \E sample \in Samples, dt \in PathSteps, limit \in EndOfStrokeLimits,
          stop \in EndOfStrokeStops :
          LET Returns(r) ==
                  /\ position_modeler' = Some(r.pm)
                  /\ ret' = [ ok |-> TRUE, out |-> r.out, err |-> "", exit |-> r.exit,
                              it |-> r.it, delta_time |-> r.delta_time ]
          IN  /\ Returns(model_end_of_stroke(Unwrap(position_modeler), sample.pos,
                                             dt, limit, stop))
              /\ call' = [ op |-> "model_end_of_stroke", anchor_pos |-> sample.pos,
                           delta_time |-> dt, max_iterations |-> limit,
                           stop_distance |-> stop, was |-> phase ]
    /\ prev' = [ op |-> call.op, ok |-> ret.ok, was |-> call.was ]
    /\ UNCHANGED << params, wobble_deque, wobble_weighted_pos_sum, wobble_duration_sum,
                    wobble_distance_sum, last_event, last_corrected_event, state_modeler,
                    clock, ncalls, phase, np, np_ret, fresh, fresh_ret, fresh_tag,
                    emitted, in_force, alt, given, sent >>

NextCatchUp == PositionUpdate \/ EndOfStroke

SpecCatchUp == InitCatchUp /\ [][NextCatchUp]_vars

\* The linear-path upsampler on the position modeler alone: a path between
\* any two positions, starting at the state's time or half a tick after
\* it, of any of the durations, in one to three steps.
PathLags == { 0, Tick \div 2 }
PathDurations == { Tick \div 2, Tick, 3 * Tick }
PathCounts == 1..3

\* position_modeler.update_along_linear_path(start_pos, start_time,
\* end_pos, end_time, n_steps)
LinearPath ==
    /\ ncalls < MaxPathSteps
    /\ \E from \in Samples, to \in Samples, lag \in PathLags, dur \in PathDurations,
          n_steps \in PathCounts :
          LET start_time == Unwrap(position_modeler).state.time + lag
              Returns(r) ==
                  /\ position_modeler' = Some(r.pm)
                  /\ ret' = [ ok |-> TRUE, out |-> r.out, err |-> "" ]
          IN  /\ Returns(update_along_linear_path(Unwrap(position_modeler), from.pos,
                              start_time, to.pos, start_time + dur, n_steps))
              /\ call' = [ op |-> "update_along_linear_path", start_pos |-> from.pos,
                           start_time |-> start_time, end_pos |-> to.pos,
                           end_time |-> start_time + dur, n_steps |-> n_steps,
                           was |-> phase ]
    /\ ncalls' = ncalls + 1
    /\ prev' = [ op |-> call.op, ok |-> ret.ok, was |-> call.was ]
    /\ UNCHANGED << params, wobble_deque, wobble_weighted_pos_sum, wobble_duration_sum,
                    wobble_distance_sum, last_event, last_corrected_event, state_modeler,
                    clock, phase, np, np_ret, fresh, fresh_ret, fresh_tag, emitted,
                    in_force, alt, given, sent >>

NextPath == PositionUpdate \/ LinearPath

SpecPath == InitCatchUp /\ [][NextPath]_vars

\* A caller whose event times go back as well as forward
AnyDeltas == { 0 - 2 * Tick, 0 - Tick, 0, Tick }

UpdateAnyTime ==
    /\ ncalls < MaxCalls
    /\ \E event_type \in EventTypes, sample \in Samples, delta \in AnyDeltas :
          UpdateCall(event_type, sample, delta)

NextAnyTime == UpdateAnyTime \/ Predict \/ Reset \/ ResetWParams

SpecAnyTime == InitAny /\ [][NextAnyTime]_vars

\* A caller that keeps to the protocol Down, Move*, Up and may reset at any
\* point: it sends Down only when no stroke is open and Move or Up only
\* when one is, at two of the positions.
StrokeSamples == { sm \in Samples : sm.pos[2] = 0 }

StrokeUpdate ==
    /\ ncalls < MaxStrokeCalls
    /\ \E event_type \in (IF phase = "Idle" THEN { "Down" } ELSE { "Move", "Up" }),
          sample \in StrokeSamples, delta \in Deltas :
          UpdateCall(event_type, sample, delta)

StrokeReset ==
    /\ ncalls < MaxStrokeCalls
    /\ ResetCall

NextStrokes == StrokeUpdate \/ StrokeReset

SpecStrokes == Init /\ [][NextStrokes]_vars

\* A second stroke.  CompletedUp(p, a, b, delta) is what the Up returns
\* after new(p), Down at a (time 0) and Up at b (delta later), with the
\* modeler it leaves; the caller then sends one
\* stroke Down, Move*, Up, and the same stroke goes to a modeler newly
\* constructed with p.
StrokeEvent(event_type, sample, time) ==
    [ event_type |-> event_type, pos |-> sample.pos, time |-> time,
      pressure |-> sample.pressure ]

CompletedUp(p, a, b, delta) ==
    StrokeModeler_update(
        StrokeModeler_update(StrokeModeler_new(p), StrokeEvent("Down", a, 0), FALSE).m,
        StrokeEvent("Up", b, delta), FALSE)

InitSecondStroke ==
    \E p \in { P1, P3 }, a \in StrokeSamples, b \in StrokeSamples, delta \in Deltas :
        LET \* up: what the Up of the completed stroke returned
            After(up) ==
                /\ params                  = up.m.params
                /\ last_event              = up.m.last_event
                /\ last_corrected_event    = up.m.last_corrected_event
                /\ wobble_deque            = up.m.wobble_deque
                /\ wobble_duration_sum     = up.m.wobble_duration_sum
                /\ wobble_weighted_pos_sum = up.m.wobble_weighted_pos_sum
                /\ wobble_distance_sum     = up.m.wobble_distance_sum
                /\ position_modeler        = up.m.position_modeler
                /\ state_modeler           = up.m.state_modeler
                /\ ret = Returned(up)
                /\ np = up.m
                /\ np_ret = Returned(up)
                /\ emitted = up.out[Len(up.out)].time
        IN  /\ After(CompletedUp(p, a, b, delta))
            /\ call = [ op |-> "update", input |-> StrokeEvent("Up", b, delta),
                        was |-> "InStroke" ]
            /\ clock = delta
            /\ ncalls = 0
            /\ phase = "Idle"
            /\ prev = [ op |-> "update", ok |-> TRUE, was |-> "Idle" ]
            /\ fresh = StrokeModeler_new(p)
            /\ fresh_ret = [ ok |-> TRUE, out |-> <<>>, err |-> "" ]
            /\ fresh_tag = "up"
            /\ in_force = p
            /\ alt = StrokeModeler_new(p)
            /\ given = p
            /\ sent = <<>>

\* the next event of the one stroke that follows the completed one
SecondStrokeUpdate ==
    /\ ncalls < MaxStrokeCalls
    /\ phase = "Idle" => ncalls = 0
    /\ \E event_type \in (IF phase = "Idle" THEN { "Down" } ELSE { "Move", "Up" }),
          sample \in StrokeSamples, delta \in Deltas :
          UpdateCall(event_type, sample, delta)

NextSecondStroke == SecondStrokeUpdate

SpecSecondStroke == InitSecondStroke /\ [][NextSecondStroke]_vars

\* A caller that keeps to the protocol and whose pressures are far apart:
\* the least pressure of the grid and one past 2^24 grid units, where
\* consecutive f32 values are 4 units apart.
FarPressures == { 1, 2^24 + 4 }
PressureSamples ==
    { [ pos |-> sample.pos, pressure |-> pressure ] :
          sample \in Samples, pressure \in FarPressures }

PressureUpdate ==
    /\ ncalls < MaxCalls
    /\ \E event_type \in (IF phase = "Idle" THEN { "Down" } ELSE { "Move", "Up" }),
          sample \in PressureSamples, delta \in Deltas :
          UpdateCall(event_type, sample, delta)

NextPressure == PressureUpdate \/ Predict

SpecPressure == InitAny /\ [][NextPressure]_vars

\* the same caller on a modeler constructed with the smoothing parameter set
SpecSmoothStrokes == InitSmoothing /\ [][NextStrokes]_vars

\* ----------------------------------------------------------------- claims
IsUpdate(kinds) == call.op = "update" /\ call.input.event_type \in kinds

\* C1: update(e) returns Ok exactly when e is Down and no stroke is in
\* progress, or e is Move or Up and one is; after an accepted Down or Move
\* the modeler is in a stroke, after an accepted Up it is not, and a
\* rejected event leaves it where it was.
C1_UpdateAcceptance ==
    call.op = "update" =>
        /\ ret.ok <=> \/ (call.input.event_type = "Down" /\ call.was = "Idle")
                      \/ (call.input.event_type \in { "Move", "Up" } /\ call.was = "InStroke")
        /\ (ret.ok /\ call.input.event_type \in { "Down", "Move" }) => IsSome(last_event)
        /\ (ret.ok /\ call.input.event_type = "Up") => ~IsSome(last_event)
        /\ ~ret.ok => (IsSome(last_event) <=> call.was = "InStroke")

\* C1 witness: a Down sent in the middle of a stroke has been rejected
C1_Witness ==
    /\ IsUpdate({ "Down" })
    /\ call.was = "InStroke"
    /\ ~ret.ok
    /\ prev.op = "update" /\ prev.ok

\* C2: a call that returns an error leaves every field of the modeler as
\* it was before the call.
C2_ErrorLeavesModeler == [][ ~ret'.ok => UNCHANGED modeler_vars ]_vars

\* C2 witness: reset_w_params has failed in the middle of a stroke, with
\* samples in the wobble ring and the pressure history
C2_Witness ==
    /\ call.op = "reset_w_params"
    /\ ~ret.ok
    /\ IsSome(last_event)
    /\ Len(wobble_deque) >= 2
    /\ Len(state_modeler.last_strokes) >= 2

\* C3: predict() returns an error exactly when no stroke is in progress:
\* on a new modeler, after an accepted Up, after a reset; and Ok after an
\* accepted Down or Move.
C3_PredictErrIffIdle ==
    call.op = "predict" => (ret.ok <=> call.was = "InStroke")

\* C3 witness: predict has failed right after the Up that ended a stroke
C3_Witness ==
    /\ call.op = "predict"
    /\ ~ret.ok
    /\ prev.op = "update" /\ prev.ok /\ prev.was = "InStroke"
    /\ IsSome(position_modeler)

\* C4: every call returns what it returns on the modeler that received the
\* same calls without the predict() calls.
C4_PredictTransparent == ret = np_ret

\* C4 witness: a Move that follows a predict() has produced results
C4_Witness ==
    /\ IsUpdate({ "Move" })
    /\ ret.ok
    /\ prev.op = "predict" /\ prev.ok
    /\ Len(ret.out) >= 2

\* C5: after reset(), every update returns what it returns on a modeler
\* newly constructed with the same parameters and fed the same events.
C5_ResetLikeNew ==
    (fresh_tag = "reset" /\ call.op = "update") => ret = fresh_ret

\* C6: after reset_w_params(p) has returned Ok, every update and predict
\* returns what it returns on StrokeModeler::new(p) fed the same events.
C6_ResetWParamsLikeNew ==
    (fresh_tag = "reset_w_params" /\ call.op \in { "update", "predict" })
        => ret = fresh_ret

\* C7: reset_w_params(p) with p the current parameters and reset() leave
\* the same modeler when started from the same state.
C7_ResetWParamsIsReset ==
    /\ (call.op = "reset_w_params" /\ ret.ok /\ call.p = alt.params) => Self = alt
    /\ call.op = "reset" => Self = alt

\* C8: right after reset() or a successful reset_w_params(), predict() and
\* update(Move / Up) fail and update(Down) succeeds.
C8_ResetGoesIdle ==
    (prev.op = "reset" \/ (prev.op = "reset_w_params" /\ prev.ok)) =>
        /\ call.op = "predict" => ~ret.ok
        /\ IsUpdate({ "Move", "Up" }) => ~ret.ok
        /\ IsUpdate({ "Down" }) => ret.ok

\* C8 witness: a Down has been accepted right after a reset made in the
\* middle of a stroke
C8_Witness ==
    /\ prev.op \in { "reset", "reset_w_params" }
    /\ prev.ok
    /\ prev.was = "InStroke"
    /\ IsUpdate({ "Down" })
    /\ ret.ok

\* C9: an accepted Down returns exactly one result: the event's position,
\* time and pressure, with zero velocity and acceleration.
C9_DownResult ==
    (IsUpdate({ "Down" }) /\ ret.ok) =>
        ret.out = << [ pos          |-> call.input.pos,
                       velocity     |-> << 0, 0 >>,
                       acceleration |-> << 0, 0 >>,
                       time         |-> call.input.time,
                       pressure     |-> call.input.pressure ] >>

\* C9 witness: the Down of a later stroke, with a pressure other than 1.0
C9_Witness ==
    /\ IsUpdate({ "Down" })
    /\ ret.ok
    /\ call.input.pressure # F32
    /\ call.input.time > 0
    /\ Len(wobble_deque) >= 2

\* C10: the times of the results of one accepted update are non-decreasing
\* (the caller's event times never decrease).
C10_TimesNonDecreasing ==
    (call.op = "update" /\ ret.ok) =>
        \A k \in 1..(Len(ret.out) - 1) : ret.out[k].time <= ret.out[k + 1].time

\* C10 witness: an Up has returned upsampled steps followed by a catch-up tail
C10_Witness ==
    /\ IsUpdate({ "Up" })
    /\ ret.ok
    /\ Len(ret.out) >= 3
    /\ ret.out[2].time = call.input.time
    /\ ret.out[Len(ret.out)].time > call.input.time

\* C11 (as stated): with event times that never decrease, the first result
\* of every accepted update is no earlier than the last result returned by
\* the previous update that returned results, across strokes as well.
C11_AcrossCalls ==
    [][ (call'.op = "update" /\ ret'.ok /\ Len(ret'.out) > 0 /\ emitted >= 0)
            => ret'.out[1].time >= emitted ]_vars

\* C11 (amended): the same for every accepted Move and Up, that is within
\* one stroke.
C11_WithinStroke ==
    [][ (call'.op = "update" /\ call'.input.event_type \in { "Move", "Up" }
         /\ ret'.ok /\ Len(ret'.out) > 0)
            => (emitted >= 0 /\ ret'.out[1].time >= emitted) ]_vars

\* C11 witness: a Move that returned results has followed another accepted
\* event of the same stroke, two ticks into the run
C11_Witness ==
    /\ IsUpdate({ "Move" })
    /\ ret.ok
    /\ Len(ret.out) >= 2
    /\ prev.op = "update" /\ prev.ok /\ prev.was = "InStroke"
    /\ clock = 2 * Tick

\* C12: every update that does not return an error returns at least one
\* result, a Move or Up at the time of the previous event included.
C12_AtLeastOneResult ==
    (call.op = "update" /\ ret.ok) => Len(ret.out) >= 1

\* the catch-up an Up at the previous event's time runs, computed on the
\* position modeler pm for the event position pos
EmptyUpCatchUp(pm, pos) ==
    model_end_of_stroke(pm, pos, OutputPeriod(params),
                        params.sampling_end_of_stroke_max_iterations,
                        params.sampling_end_of_stroke_stopping_distance).out

\* C13: an Up at the time of the previous event whose catch-up emits
\* nothing returns exactly one result: position, velocity and acceleration
\* of the position modeler's state, that state's time plus
\* 1 / sampling_min_output_rate, and the pressure queried at that position.
C13_EmptyUp ==
    [][ ( /\ call'.op = "update" /\ call'.input.event_type = "Up" /\ ret'.ok
          /\ call'.input.time = Unwrap(last_event).time
          /\ EmptyUpCatchUp(Unwrap(position_modeler), call'.input.pos) = <<>> )
        => ret'.out =
             << [ pos          |-> Unwrap(position_modeler).state.pos,
                  velocity     |-> Unwrap(position_modeler).state.velocity,
                  acceleration |-> Unwrap(position_modeler).state.acceleration,
                  time         |-> Unwrap(position_modeler).state.time
                                   + DivF64(F64, params.sampling_min_output_rate),
                  pressure     |-> StateModeler_query(state_modeler',
                                       Unwrap(position_modeler).state.pos) ] >> ]_vars

\* C13 witness: such an Up has returned its single result while the
\* position modeler was away from the event's position and moving
C13_Witness ==
    /\ IsUpdate({ "Up" })
    /\ ret.ok
    /\ Len(ret.out) = 1
    /\ EmptyUpCatchUp(Unwrap(position_modeler), call.input.pos) = <<>>
    /\ ret.out[1].pos # call.input.pos
    /\ ret.out[1].velocity # << 0, 0 >>
    /\ ret.out[1].time > call.input.time

\* what update(Move) with the payload of `input` followed by predict()
\* return on the modeler m, one after the other
MoveThenPredict(m, input) ==
    LET Predicted(moved) == moved.out \o StrokeModeler_predict(moved.m).out
    IN  Predicted(update_Move(m, [ input EXCEPT !.event_type = "Move" ]))

\* C14: an accepted Up returns the results of update(Move) with the same
\* position, time and pressure followed by the results of the predict()
\* made right after that Move; when the two together are empty it returns
\* one result instead.
C14_UpIsMoveThenPredict ==
    [][ (call'.op = "update" /\ call'.input.event_type = "Up" /\ ret'.ok)
        => IF MoveThenPredict(Self, call'.input) = <<>>
           THEN Len(ret'.out) = 1
           ELSE ret'.out = MoveThenPredict(Self, call'.input) ]_vars

\* C14 witness: an Up away from the previous anchor has returned path
\* steps followed by catch-up samples
C14_Witness ==
    /\ IsUpdate({ "Up" })
    /\ ret.ok
    /\ Len(ret.out) >= 3
    /\ ret.out[2].time = call.input.time
    /\ ret.out[Len(ret.out)].time > call.input.time
    /\ call.input.pos # Unwrap(last_corrected_event)
    /\ call.input.pos # ret.out[2].pos

\* the time steps, iteration limits and stop distances the catch-up is
\* tried with on every position modeler state a run reaches: with half a
\* period per step and a stop distance of one grid unit the loop runs until
\* the iteration limit ends it
CatchUpSteps == { Tick \div 2 }
CatchUpLimits == 1..2
CatchUpStops == { 1 }

\* C15: the catch-up returns at most max_iterations samples from every
\* state of the position modeler, for every anchor, time step, iteration
\* limit and stop distance; and predict() returns at most
\* sampling_end_of_stroke_max_iterations results.
C15_CatchUpBounded ==
    /\ (call.op = "predict" /\ ret.ok) =>
           Len(ret.out) <= params.sampling_end_of_stroke_max_iterations
    /\ IsSome(position_modeler) =>
           \A sample \in Samples, dt \in CatchUpSteps, limit \in CatchUpLimits,
              stop \in CatchUpStops :
              Len(model_end_of_stroke(Unwrap(position_modeler), sample.pos,
                                      dt, limit, stop).out) <= limit

\* C15 witness: predict() has returned as many results as the limit allows
C15_Witness ==
    /\ call.op = "predict"
    /\ ret.ok
    /\ Len(ret.out) = params.sampling_end_of_stroke_max_iterations

\* ceil(dt * rate) for a duration dt >= 0 and a rate, both on the f64 grid
CeilOfProduct(dt, rate) ==
    CHOOSE n \in 0..(2 * (MaxTicks + 1)) :
        /\ n * F64 * F64 >= dt * rate
        /\ (n - 1) * F64 * F64 < dt * rate

C17_HistoryBounded ==
    Len(state_modeler.last_strokes) <= in_force.stylus_state_modeler_max_input_samples

\* C18: the wobble ring never holds more than
\* ceil(2 * sampling_min_output_rate * wobble_smoother_timeout) samples,
\* however fast the events arrive.
C18_WobbleRingBounded ==
    Len(wobble_deque) <= CeilOfProduct(2 * params.wobble_smoother_timeout,
                                       params.sampling_min_output_rate)

\* C19 (as stated): last_event, last_corrected_event and position_modeler
\* are all Some or all None, and Some exactly while a stroke is in
\* progress.
C19_TripletTogether ==
    /\ IsSome(last_event) <=> phase = "InStroke"
    /\ IsSome(last_corrected_event) <=> IsSome(last_event)
    /\ IsSome(position_modeler) <=> IsSome(last_event)

\* C19 (amended): last_event is Some exactly while a stroke is in
\* progress, and while it is Some the other two are Some as well.
C19_LastEventTracksStroke ==
    /\ IsSome(last_event) <=> phase = "InStroke"
    /\ IsSome(last_event) => (IsSome(last_corrected_event) /\ IsSome(position_modeler))

\* C19 witness: a second stroke has been opened after the Up of the first
C19_Witness ==
    /\ phase = "InStroke"
    /\ IsSome(last_event)
    /\ IsUpdate({ "Down" })
    /\ ret.ok
    /\ prev.op = "update" /\ prev.ok /\ prev.was = "InStroke"

\* the sum of a sequence of numbers
RECURSIVE SeqSum(_)
SeqSum(seq) == IF seq = <<>> THEN 0 ELSE Head(seq) + SeqSum(Tail(seq))

\* C20: each wobble running sum is the sum of its field over the samples
\* in the wobble ring; all three are zero when the ring is empty.
C20_SumsMatchRing ==
    /\ wobble_duration_sum =
           SeqSum([ k \in 1..Len(wobble_deque) |-> wobble_deque[k].duration ])
    /\ wobble_distance_sum =
           SeqSum([ k \in 1..Len(wobble_deque) |-> wobble_deque[k].distance ])
    /\ wobble_weighted_pos_sum =
           << SeqSum([ k \in 1..Len(wobble_deque) |-> wobble_deque[k].weighted_position[1] ]),
              SeqSum([ k \in 1..Len(wobble_deque) |-> wobble_deque[k].weighted_position[2] ]) >>

\* the samples an update has evicted: what is gone from the front of the
\* ring it found (old) with the new sample appended, given the ring it left
Evicted(old, left) ==
    SubSeq(old \o << left[Len(left)] >>, 1, Len(old) + 1 - Len(left))

\* C21: after every accepted update with event e (event times never
\* decrease) every sample in the wobble ring has time >= e.time -
\* wobble_smoother_timeout, the ring is what remains of the old ring and the
\* new sample once the evicted ones are gone from the front, and each
\* running sum is its old value plus the new sample's contribution minus
\* the evicted samples' contributions.
C21_EvictionKeepsWindow ==
    [][ (call'.op = "update" /\ ret'.ok)
        => /\ \A k \in 1..Len(wobble_deque') :
                 wobble_deque'[k].time
                     >= call'.input.time - params.wobble_smoother_timeout
           /\ Len(wobble_deque') >= 1
           /\ Len(wobble_deque') <= Len(wobble_deque) + 1
           /\ wobble_deque' =
                  SubSeq(wobble_deque \o << wobble_deque'[Len(wobble_deque')] >>,
                         Len(wobble_deque) + 2 - Len(wobble_deque'),
                         Len(wobble_deque) + 1)
           /\ \A k \in 1..Len(Evicted(wobble_deque, wobble_deque')) :
                 Evicted(wobble_deque, wobble_deque')[k].time
                     < call'.input.time - params.wobble_smoother_timeout
           /\ wobble_duration_sum' =
                  wobble_duration_sum
                  + wobble_deque'[Len(wobble_deque')].duration
                  - SeqSum([ k \in 1..Len(Evicted(wobble_deque, wobble_deque'))
                             |-> Evicted(wobble_deque, wobble_deque')[k].duration ])
           /\ wobble_distance_sum' =
                  wobble_distance_sum
                  + wobble_deque'[Len(wobble_deque')].distance
                  - SeqSum([ k \in 1..Len(Evicted(wobble_deque, wobble_deque'))
                             |-> Evicted(wobble_deque, wobble_deque')[k].distance ])
           /\ \A c \in 1..2 :
                 wobble_weighted_pos_sum'[c] =
                     wobble_weighted_pos_sum[c]
                     + wobble_deque'[Len(wobble_deque')].weighted_position[c]
                     - SeqSum([ k \in 1..Len(Evicted(wobble_deque, wobble_deque'))
                                |-> Evicted(wobble_deque, wobble_deque')[k].weighted_position[c] ])
      ]_vars

\* C21 witness: an accepted update has evicted the first sample of the
\* stroke: the front of the ring is a later sample, still inside the window
C21_Witness ==
    /\ call.op = "update"
    /\ ret.ok
    /\ Len(wobble_deque) >= 2
    /\ wobble_deque[1].duration > 0
    /\ wobble_deque[1].time < call.input.time
    /\ wobble_deque[1].time >= call.input.time - params.wobble_smoother_timeout

\* C22: no call panics: whatever the valid parameters and whatever the
\* kinds, positions, times and pressures of the events, every update,
\* predict, reset and reset_w_params returns Ok or Err.
C22_NoAbort == ~Aborted

C24_ValidateIff ==
    call.op = "validate" =>
        (ret.ok <=>
            /\ call.p.position_modeler_spring_mass_constant > 0
            /\ call.p.position_modeler_drag_constant > 0
            /\ call.p.sampling_min_output_rate > 0
            /\ call.p.sampling_end_of_stroke_stopping_distance > 0
            /\ call.p.sampling_end_of_stroke_max_iterations >= 1
            /\ call.p.sampling_end_of_stroke_max_iterations < 1000
            /\ call.p.sampling_max_outputs_per_call > 0
            /\ call.p.wobble_smoother_timeout > 0
            /\ call.p.wobble_smoother_speed_floor > 0
            /\ call.p.wobble_smoother_speed_floor < call.p.wobble_smoother_speed_ceiling
            /\ call.p.stylus_state_modeler_max_input_samples > 0)

\* C25: a parameter set that is valid with max iterations = 1 is accepted
\* by validate() and by StrokeModeler::new with every max iterations from
\* 1 to 1000, 1000 included.
C25_ThousandAccepted ==
    ( /\ call.op \in { "validate", "new" }
      /\ call.p.sampling_end_of_stroke_max_iterations \in 1..1000
      /\ validate([ call.p EXCEPT !.sampling_end_of_stroke_max_iterations = 1 ]) )
        => ret.ok

\* C26: predict() made right after an accepted Down returns Ok with no
\* result, and so does every predict() made while the position modeler
\* rests, with zero velocity, at the position of the last event.
C26_PredictAtRest ==
    [][ ( /\ call'.op = "predict"
          /\ \/ (call.op = "update" /\ call.input.event_type = "Down" /\ ret.ok)
             \/ ( /\ IsSome(last_event)
                  /\ Unwrap(position_modeler).state.pos = Unwrap(last_event).pos
                  /\ Unwrap(position_modeler).state.velocity = << 0, 0 >> ) )
        => (ret'.ok /\ ret'.out = <<>>) ]_vars

\* C26 witness: predict() has returned no result right after the Down of a
\* stroke away from the origin
C26_Witness ==
    /\ call.op = "predict"
    /\ ret.ok
    /\ ret.out = <<>>
    /\ prev.op = "update" /\ prev.ok /\ prev.was = "Idle"
    /\ Unwrap(last_event).pos # << 0, 0 >>
    /\ Unwrap(position_modeler).state.pos = Unwrap(last_event).pos

\* C27: model_end_of_stroke leaves the state of the position modeler
\* (position, velocity, acceleration, time) as it found it, whichever
\* return ends it and however many back-offs came before.
C27_CatchUpRestores ==
    [][ call'.op = "model_end_of_stroke" => position_modeler' = position_modeler ]_vars

\* the overshoot back-offs of the catch-up that has just returned: the
\* iterations that emitted nothing
BackOffs ==
    (IF ret.exit = "close" THEN ret.it + 1 ELSE ret.it) - Len(ret.out)

\* C27 witness: a catch-up has emitted samples, backed off and run out of
\* iterations, away from the state it started from
C27_Witness ==
    /\ call.op = "model_end_of_stroke"
    /\ ret.exit = "exhausted"
    /\ BackOffs >= 1
    /\ Len(ret.out) >= 1
    /\ ret.out[Len(ret.out)].pos # Unwrap(position_modeler).state.pos

\* the state the k-th emitted sample was integrated from: the sample
\* before it, the state on entry for the first
EmittedFrom(k) ==
    IF k = 1 THEN Unwrap(position_modeler).state ELSE ret.out[k - 1]

\* delta_time after n back-offs
RECURSIVE Halved(_, _)
Halved(delta_time, n) ==
    IF n = 0 THEN delta_time ELSE Halved(RoundDiv(delta_time, 2), n - 1)

C29_StopConditions ==
    call.op = "model_end_of_stroke" =>
        /\ \A k \in 1..Len(ret.out) :
              dist(EmittedFrom(k).pos, ret.out[k].pos) >= call.stop_distance
        /\ \A k \in 1..(Len(ret.out) - 1) :
              dist(ret.out[k].pos, call.anchor_pos) >= call.stop_distance
        /\ ret.exit = "close" <=>
              /\ Len(ret.out) >= 1
              /\ dist(ret.out[Len(ret.out)].pos, call.anchor_pos) < call.stop_distance
        /\ ret.exit = "stalled" =>
              dist(EmittedFrom(Len(ret.out) + 1).pos,
                   PositionModeler_update(
                       [ Unwrap(position_modeler)
                             EXCEPT !.state = EmittedFrom(Len(ret.out) + 1) ],
                       call.anchor_pos,
                       EmittedFrom(Len(ret.out) + 1).time + ret.delta_time).state.pos)
                  < call.stop_distance
        /\ ret.exit = "exhausted" => ret.it = call.max_iterations
        /\ ret.exit \in { "close", "stalled" } => ret.it < call.max_iterations

\* C29 witness: a catch-up has emitted samples and then stopped at a
\* candidate that hardly moved, short of the anchor
C29_Witness ==
    /\ call.op = "model_end_of_stroke"
    /\ ret.exit = "stalled"
    /\ Len(ret.out) >= 1
    /\ dist(ret.out[Len(ret.out)].pos, call.anchor_pos) >= call.stop_distance

\* C30: one integration step toward the anchor a at time t_new computes
\* acceleration = (a - pos) / K - D * velocity from the position and
\* velocity of before the step, then velocity += dt * acceleration, then
\* pos += dt * velocity with the new velocity, and time = t_new, with
\* dt = t_new - old time; the returned sample is the new state.
C30_IntegrationOrder ==
    [][ call'.op = "position_update" =>
          LET s  == Unwrap(position_modeler).state
              K  == Unwrap(position_modeler).position_modeler_spring_mass_constant
              D  == Unwrap(position_modeler).position_modeler_drag_constant
              dt == AsF32(call'.time - s.time)
              n  == Unwrap(position_modeler').state
          IN  /\ \A c \in 1..2 :
                    /\ n.acceleration[c] =
                           DivF32(call'.anchor_pos[c] - s.pos[c], K)
                           - MulF32(D, s.velocity[c])
                    /\ n.velocity[c] = s.velocity[c] + MulF32(dt, n.acceleration[c])
                    /\ n.pos[c] = s.pos[c] + MulF32(dt, n.velocity[c])
              /\ n.time = call'.time
              /\ ret'.out = << n >> ]_vars

\* C30 witness: a step has been made from a moving state (the new velocity
\* is not dt * acceleration alone) and has not reached the anchor
C30_Witness ==
    /\ call.op = "position_update"
    /\ ret.out[1].acceleration # << 0, 0 >>
    /\ ret.out[1].pos # call.anchor_pos
    /\ \A dt \in PathSteps :
          ret.out[1].velocity[1] # MulF32(AsF32(dt), ret.out[1].acceleration[1])

\* the state step k of the path that has just returned was integrated
\* from: the sample before it, the state on entry for the first
PathFrom(old, k) == IF k = 1 THEN old ELSE ret'.out[k - 1]

C32_AnchorChain ==
    [][ /\ (call'.op = "update" /\ call'.input.event_type = "Down" /\ ret'.ok)
            => last_corrected_event' = Some(call'.input.pos)
        /\ (call'.op = "update" /\ call'.input.event_type \in { "Move", "Up" } /\ ret'.ok)
            => LET Holds(p_end, path) ==
                       /\ Len(ret'.out) >= Len(path)
                       /\ call'.input.event_type = "Move" => Len(ret'.out) = Len(path)
                       /\ \A k \in 1..Len(path) :
                             /\ ret'.out[k].pos = path[k].pos
                             /\ ret'.out[k].velocity = path[k].velocity
                             /\ ret'.out[k].acceleration = path[k].acceleration
                             /\ ret'.out[k].time = path[k].time
                       /\ call'.input.event_type = "Move"
                             => last_corrected_event' = Some(p_end)
                   Ends(p_end) ==
                       Holds(p_end,
                             update_along_linear_path(Unwrap(position_modeler),
                                 Unwrap(last_corrected_event), Unwrap(last_event).time,
                                 p_end, call'.input.time,
                                 NTSteps(params, Unwrap(last_event).time,
                                         call'.input.time)).out)
               IN  Ends(wobble_update(Self, call'.input).pos)
        /\ (call'.op = "predict" \/ ~ret'.ok) => UNCHANGED last_corrected_event ]_vars

\* C32 witness: a Move that followed another Move of its stroke has
\* returned a path of two steps or more whose end, the smoothed position
\* now stored, is not the raw position of the event, and whose first step
\* was not pulled toward the end of the path
C32_Witness ==
    /\ IsUpdate({ "Move" })
    /\ ret.ok
    /\ Len(ret.out) >= 2
    /\ prev.op = "update" /\ prev.ok /\ prev.was = "InStroke"
    /\ last_corrected_event # Some(call.input.pos)
    /\ ret.out[1].acceleration # ret.out[2].acceleration
    /\ ret.out[1].pos # Unwrap(last_corrected_event)

\* C33: wobble_update returns exactly the position of the event when the
\* ring was empty, when the duration sum of the window is below 1e-12, and
\* when the average speed over the window (distance sum / duration sum)
\* is greater than or equal to wobble_smoother_speed_ceiling.
C33_PassThrough ==
    [][ ( /\ call'.op = "wobble_update"
          /\ \/ Len(wobble_deque) = 0
             \/ wobble_duration_sum' < 1
             \/ DivF32(wobble_distance_sum', AsF32(wobble_duration_sum'))
                    >= params.wobble_smoother_speed_ceiling )
        => ret'.out[1] = call'.event.pos ]_vars

\* the nearest point of the segment of the pair (i, i + 1) of the history h
\* to pos, as a parameter of the segment, and its distance to pos
PairParameter(h, i, pos) == nearest_point_on_segment(h[i].pos, h[i + 1].pos, pos)

PairDistance(h, i, pos) ==
    dist(pos, interp2(h[i].pos, h[i + 1].pos, PairParameter(h, i, pos)))

\* the earliest of the pairs of h that are nearest to pos
NearestPair(h, pos) ==
    CHOOSE i \in 1..(Len(h) - 1) :
        /\ \A j \in 1..(Len(h) - 1) : PairDistance(h, i, pos) <= PairDistance(h, j, pos)
        /\ \A j \in 1..(i - 1) : PairDistance(h, j, pos) > PairDistance(h, i, pos)

\* C34: query(pos) returns 1.0 on an empty history, the pressure of the
\* sample on a history of one, and otherwise interp(s_i.pressure,
\* s_{i+1}.pressure, r) for the consecutive pair nearest to pos, r the
\* nearest-point parameter on its segment, the earliest pair when several
\* are equally near; and it leaves the history as it was.
C34_Query ==
    [][ call'.op = "state_query" =>
          /\ state_modeler' = state_modeler
          /\ Len(state_modeler.last_strokes) = 0 => ret'.out = << F32 >>
          /\ Len(state_modeler.last_strokes) = 1 =>
                 ret'.out = << state_modeler.last_strokes[1].pressure >>
          /\ Len(state_modeler.last_strokes) >= 2 =>
                 LET Of(h, i) ==
                         ret'.out = << interp(h[i].pressure, h[i + 1].pressure,
                                              PairParameter(h, i, call'.pos)) >>
                 IN  Of(state_modeler.last_strokes,
                        NearestPair(state_modeler.last_strokes, call'.pos)) ]_vars

\* C34 witness: a query has been answered from the first of two pairs that
\* are equally near, where the second pair gives another pressure
C34_Witness ==
    /\ call.op = "state_query"
    /\ Len(state_modeler.last_strokes) = 3
    /\ PairDistance(state_modeler.last_strokes, 1, call.pos)
           = PairDistance(state_modeler.last_strokes, 2, call.pos)
    /\ ret.out[1] # interp(state_modeler.last_strokes[2].pressure,
                           state_modeler.last_strokes[3].pressure,
                           PairParameter(state_modeler.last_strokes, 2, call.pos))
    /\ ret.out[1] # state_modeler.last_strokes[1].pressure
    /\ ret.out[1] # state_modeler.last_strokes[2].pressure

\* the last n elements of the sequence seq
LastN(seq, n) == SubSeq(seq, Len(seq) - n + 1, Len(seq))

\* C35: after any updates since the last reset the history is the most
\* recent min(k, max_input_samples) inputs in the order they were given,
\* k the number of updates; an update at capacity drops the oldest sample
\* and no other; reset(max) empties the history and sets the capacity.
C35_History ==
    [][ /\ state_modeler'.last_strokes =
               LastN(sent', Min(Len(sent'),
                                state_modeler'.stylus_state_modeler_max_input_samples))
        /\ ( /\ call'.op = "state_update"
             /\ Len(state_modeler.last_strokes)
                    = state_modeler.stylus_state_modeler_max_input_samples )
           => /\ state_modeler'.last_strokes
                     = Tail(Append(state_modeler.last_strokes, call'.input))
              /\ Len(state_modeler'.last_strokes) = Len(state_modeler.last_strokes)
        /\ call'.op = "state_update" =>
               state_modeler'.stylus_state_modeler_max_input_samples
                   = state_modeler.stylus_state_modeler_max_input_samples
        /\ call'.op = "state_reset" =>
               /\ state_modeler'.last_strokes = <<>>
               /\ state_modeler'.stylus_state_modeler_max_input_samples
                      = call'.max_input ]_vars

\* C35 witness: the third update since a reset has dropped the first
\* input from a history of capacity two
C35_Witness ==
    /\ call.op = "state_update"
    /\ Len(sent) = 3
    /\ state_modeler.stylus_state_modeler_max_input_samples = 2
    /\ state_modeler.last_strokes = << sent[2], sent[3] >>
    /\ sent[1] # sent[2]
    /\ sent[2] # sent[3]

\* C36: in every reachable state, last_event being Some implies that
\* position_modeler and last_corrected_event are Some, so the unwraps of
\* the Move and Up arms of update and of predict never meet None.
C36_UnwrapsNeverNone ==
    IsSome(last_event) => (IsSome(position_modeler) /\ IsSome(last_corrected_event))

\* C36 witness: predict has unwrapped the position modeler right after an
\* accepted Move has unwrapped the position modeler and the corrected
\* position
C36_Witness ==
    /\ call.op = "predict"
    /\ ret.ok
    /\ prev.op = "update" /\ prev.ok /\ prev.was = "InStroke"
    /\ IsSome(last_event)
    /\ Len(ret.out) > 0

C38_StrokesIndependent ==
    (fresh_tag = "up" /\ call.op = "update" /\ ncalls > 0) => ret = fresh_ret

\* the pressures of the inputs in the pressure history
HistoryPressures ==
    { state_modeler.last_strokes[k].pressure : k \in 1..Len(state_modeler.last_strokes) }

\* C39: every pressure in a result of update or predict lies between the
\* least and the greatest pressure of the raw inputs in the pressure
\* history, which on Move and Up includes the event being processed and
\* after a Down holds the Down alone.
C39_PressureWithinHistory ==
    /\ (call.op \in { "update", "predict" } /\ ret.ok) =>
           \A k \in 1..Len(ret.out) :
               /\ \E low \in HistoryPressures : low <= ret.out[k].pressure
               /\ \E high \in HistoryPressures : ret.out[k].pressure <= high
    /\ (IsUpdate({ "Move", "Up" }) /\ ret.ok) =>
           state_modeler.last_strokes[Len(state_modeler.last_strokes)] = call.input
    /\ (IsUpdate({ "Down" }) /\ ret.ok) => state_modeler.last_strokes = << call.input >>

====
